---- MODULE Spec2Model ----
(***************************************************************************)
(* Model of the Hardwave Bridge: the WebSocketClient background thread     *)
(* (src/src/websocket.rs), the two bounded lanes fed by                    *)
(* HardwaveBridge::send_fft_data, the plugin's initialize, reset and       *)
(* process with their sample windows (src/src/lib.rs), the packet codec    *)
(* (src/src/protocol.rs) and the owner that starts and drops the client.   *)
(*                                                                         *)
(* Time is kept in milliseconds as the durations the code compares:        *)
(* hb_elapsed is last_heartbeat.elapsed().  All timers saturate at the     *)
(* heartbeat interval, the only value they are compared with.              *)
(***************************************************************************)
EXTENDS Integers, Sequences, FiniteSets, TLC

---------------------------------------------------------------------------
(* Bounds of the model *)

\* Spec: packets the producer offers, connect attempts the streaming thread
\* makes, iterations of the connected loop
MaxOffers == 1
MaxAttempts == 9
MaxPolls == 2
\* HbSpec: the same three bounds for runs with one long connection
HbMaxOffers == 2
HbMaxAttempts == 2
HbMaxPolls == 6
\* LaneSpec: the same three bounds for runs that fill the lanes
LaneMaxOffers == 34
LaneMaxAttempts == 1
LaneMaxPolls == 2
\* ConnSpec: the same three bounds for runs over every kind of failure
ConnMaxOffers == 1
ConnMaxAttempts == 3
ConnMaxPolls == 2
\* ApiSpec: the same three bounds for runs with every call of the owner
ApiMaxOffers == 1
ApiMaxAttempts == 2
ApiMaxPolls == 1
ApiMaxCalls == 1
\* PluginSpec: process calls the host makes
MaxCalls == 2

\* the runs over the host's block sizes, over resets and over sample rates
CadenceMaxCalls == 3

\* the editor window opened, closed and opened again
EdMaxSpawns == 2
ReMaxOffers == 2
GateMaxCalls == 2
ResetMaxCalls == 3
RateMaxCalls == 3

\* the run over timestamps: one connection, time up to StampMaxMs
StampMaxOffers == 2
StampMaxAttempts == 1
StampMaxPolls == 3
StampMaxMs == 2

\* the run over the editor's drain passes: one offer more than the lane holds
EdMaxOffers == 33
EdMaxPasses == 2

\* the runs over the analyser: calls of process, samples in a slice
AnMaxCalls == 2
LevelMaxLen == 4

---------------------------------------------------------------------------
(* Program constants *)

LANE_CAPACITY == 32
INITIAL_RECONNECT_DELAY_MS == 100
MAX_RECONNECT_DELAY_MS == 5000
HEARTBEAT_INTERVAL_MS == 1000
POLL_SLEEP_MS == 1
PACKET_TYPE_FFT == 0
PACKET_TYPE_HEARTBEAT == 1
DEFAULT_PORT == 9847
PORT_MIN == 1024
PORT_MAX == 65535
U16_RANGE == 65536
FFT_SIZE == 4096
DEFAULT_SAMPLE_RATE == 48000
DEFAULT_SAMPLES_PER_SEND == 2400
SEND_RATE_HZ == 20
NUM_BANDS == 64
\* encoded widths, in bytes, of the field types of AudioPacket
U8_WIDTH == 1
U32_WIDTH == 4
U64_WIDTH == 8
F32_WIDTH == 4
\* the size budget of a packet, bytes
PACKET_SIZE_BUDGET == 600

ConnectionState == {"Disconnected", "Connecting", "Connected", "Error"}

\* what socket.send / socket.flush of one message can do
WriteOutcomes == {"ok", "send_err", "flush_err"}

\* what one call of try_connect can meet: the handshake completes, or the TCP
\* connect is refused or times out, try_clone fails, the write of the upgrade
\* request fails, a read fails or times out, the peer closes before the
\* headers end, the headers fill the 1024-byte buffer, the response is not
\* UTF-8, or it is not a 101 upgrade.  (The address "127.0.0.1:{port}" of a u16
\* port always parses, so that error path is never taken.)
ConnectFailures == {"connect_err", "clone_err", "write_err", "read_err",
                    "closed", "overflow", "not_utf8", "not_upgrade"}
ConnectOutcomes == {"handshake"} \cup ConnectFailures

\* the two outcomes explored where the kind of failure does not matter
ConnectBrief == {"handshake", "connect_err"}

\* values of the port parameter explored: the ends of its range and the default
Ports == {PORT_MIN, DEFAULT_PORT, PORT_MAX}

\* channel counts of AUDIO_IO_LAYOUTS: stereo and mono
Layouts == {2, 1}

\* sizes of the host's audio blocks explored: a single sample, half a window,
\* one send period at 48 kHz
BatchSizes == {1, FFT_SIZE \div 2, DEFAULT_SAMPLES_PER_SEND}

\* the editor threads: one per spawn
EdThreads == 1..EdMaxSpawns

\* blocks around the Enabled switch: one send period at 48 kHz, a whole window
GateBlocks == {DEFAULT_SAMPLES_PER_SEND, FFT_SIZE}

\* block sizes a host may choose: a single sample, 1024, one send period at
\* 48 kHz, a whole window
HostBlocks == {1, FFT_SIZE \div 4, DEFAULT_SAMPLES_PER_SEND, FFT_SIZE}

\* block sizes around a reset
ResetBlocks == {1, FFT_SIZE}

\* host sample rates: 20 divides 44100 and 96000 and does not divide 22050
SampleRates == {22050, 44100, 96000}

\* thread::sleep(1ms) sleeps at least 1ms; the durations explored
PollSleeps == {POLL_SLEEP_MS, POLL_SLEEP_MS + 498, POLL_SLEEP_MS + 499,
               HEARTBEAT_INTERVAL_MS}

VARIABLES
    state,            \* Arc<Mutex<ConnectionState>>
    shutdown,         \* Arc<AtomicBool>
    thread_handle,    \* Option<JoinHandle>: "None" | "Some"
    owner,            \* the client's owner: "alive" | "joining" | "dropped"
    pc,               \* position of the streaming thread
    reconnect_delay,  \* connection_loop local, ms
    hb_elapsed,       \* last_heartbeat.elapsed(), ms, saturating
    ws_lane,          \* the streaming lane (crossbeam bounded(32))
    editor_lane,      \* the editor lane (crossbeam bounded(32))
    editor_open,      \* the editor lane's receiver is alive (gui build)
    offered,          \* send cycles so far; numbers the packets
    wire,             \* messages handed to the socket, in order
    popped,           \* packets the streaming thread took from its lane
    attempts,         \* connect attempts so far
    polls,            \* connected-loop iterations so far
    fails,            \* consecutive failed attempts since the last success
    connected_before, \* some connect attempt of this thread succeeded
    last_attempt,     \* outcome of the latest attempt: "none"|"failed"|"connected"
    last_wait,        \* duration of the latest backoff sleep, ms (0: none yet)
    waits,            \* backoff sleeps since reconnect_delay was last (re)set
    slept,            \* backoff sleeps since the latest connect attempt began
    fails_before,     \* failed attempts that preceded the latest successful one
    since_conn,       \* ms since the connection was established (-1: none)
    since_hb,         \* ms since the last heartbeat was written on it (-1: none)
    since_msg,        \* ms since the last message of any kind on it (-1: none)
    since_payload,    \* ms since the last payload packet on it (-1: none)
    last_error,       \* what ended the latest attempt or connection ("none")
    server_port,      \* Arc<Mutex<u16>>
    port,             \* connection_loop local: port of the current attempt (0: none)
    last_set,         \* argument of the most recent set_port call
    spawned,          \* background threads spawned so far
    lane_id,          \* which channel packet_sender is attached to (0: new())
    params_port,      \* params.port.value()
    enabled,          \* params.enabled.value()
    last_port,        \* HardwaveBridge::last_port
    sample_rate,      \* HardwaveBridge::sample_rate, Hz
    samples_per_send, \* HardwaveBridge::samples_per_send
    samples_since_send, \* HardwaveBridge::samples_since_send
    buffer_left,      \* HardwaveBridge::buffer_left
    buffer_right,     \* HardwaveBridge::buffer_right
    samples_in,       \* samples appended so far; numbers the samples
    cleared_at,       \* value of samples_in when the windows were last cleared
    num_channels,     \* channels of the audio layout in effect
    calls,            \* process calls so far
    reset_at,         \* value of samples_in when reset() last ran (-1: never)
    last_send_at,     \* value of samples_in at the latest send cycle (0: none)
    codec_pkt,        \* <<p>>: the packet handed to to_bytes (<<>>: not yet)
    codec_bytes,      \* its encoding
    codec_back,       \* Result of from_bytes on the encoding (<<>>: not yet)
    elapsed_ms,       \* HardwaveBridge::start_time.elapsed(), ms
    ed_enqueued,      \* seq of the last packet the editor lane accepted (0: none)
    ed_pc,            \* the editor thread: "sleep" | "drain"
    ed_latest,        \* its local `latest`: <<>> (None) or <<packet>>
    ed_shown,         \* packets handed to webview.evaluate_script, in order
    ed_passes,        \* drain passes completed
    hs_stream,        \* bytes the peer sends in answer to the upgrade request
    total_read,       \* try_connect local: bytes of it read into `response`
    hs_result,        \* "idle" | "reading" | the outcome of the attempt
    an_calls,         \* calls of FftProcessor::process so far
    an_input,         \* <<window>>: the argument of the latest one (<<>>: none)
    an_bands,         \* the frame it returned (<<>>: none)
    fft_loaded,       \* <<window>>: what fft_buffer was last filled from
    an_samples,       \* <<slice>>: the argument of the latest calculate_levels
    an_levels,        \* the pair it returned (<<>>: none)
    after_connects,   \* try_connect calls made since shutdown was stored
    after_writes,     \* socket.send calls made since shutdown was stored
    read_set,         \* some shutdown.load of the thread has returned true
    port_lock,        \* who holds the server_port mutex: "free" | "thread"
    state_lock,       \* who holds the state mutex: "free" | "thread"
    ed_handle,        \* the thread of the living EditorHandle (0: none)
    th_pc,            \* per editor thread: "unborn" | "check" | "drain" | "exited"
    th_running,       \* per editor thread: its `running` flag
    th_latest,        \* per editor thread: its local `latest`
    last_call         \* the latest process call: "none" | "ran" | "idle" |
                      \* "idle_forwarded" (returned at the enabled test, the
                      \* last one after a set_port)

vars == <<state, shutdown, thread_handle, owner, pc, reconnect_delay,
          hb_elapsed, ws_lane, editor_lane, editor_open, offered, wire,
          popped, attempts, polls, fails, connected_before, last_attempt,
          last_wait, waits, slept, fails_before, since_conn, since_hb, since_msg, since_payload,
          last_error, server_port, port, last_set, spawned, lane_id,
          params_port, enabled, last_port, sample_rate, samples_per_send,
          samples_since_send, buffer_left, buffer_right, samples_in,
          cleared_at, num_channels, calls, reset_at, last_send_at, codec_pkt, codec_bytes, codec_back, elapsed_ms,
          ed_enqueued, ed_pc, ed_latest, ed_shown, ed_passes,
          hs_stream, total_read, hs_result,
          an_calls, an_input, an_bands, fft_loaded, an_samples, an_levels,
          after_connects, after_writes, read_set, last_call, port_lock,
          state_lock, ed_handle, th_pc, th_running, th_latest>>

clientVars == <<state, shutdown, thread_handle, owner>>
threadVars == <<pc, reconnect_delay, hb_elapsed>>
laneVars == <<ws_lane, editor_lane, editor_open, offered, ed_enqueued>>
connHist == <<since_conn, since_hb, since_msg, since_payload>>
loopHist == <<attempts, fails, connected_before, last_attempt, last_wait, waits,
              slept, fails_before>>
portVars == <<server_port, port, last_set>>
startHist == <<spawned, lane_id>>
pluginVars == <<params_port, enabled, last_port, sample_rate, samples_per_send,
                samples_since_send, buffer_left, buffer_right, samples_in,
                cleared_at, num_channels, calls, reset_at, last_send_at>>
codecVars == <<codec_pkt, codec_bytes, codec_back>>
editorVars == <<ed_pc, ed_latest, ed_shown, ed_passes>>
handshakeVars == <<hs_stream, total_read, hs_result>>
analyserVars == <<an_calls, an_input, an_bands, fft_loaded, an_samples,
                  an_levels>>
stopHist == <<after_connects, after_writes, read_set>>
gateHist == <<last_call>>
lockVars == <<port_lock, state_lock>>
reopenVars == <<ed_handle, th_pc, th_running, th_latest>>
histVars == <<stopHist, gateHist, lockVars, reopenVars>>
sideVars == <<elapsed_ms, editorVars, handshakeVars, analyserVars>>
auxVars == <<sideVars, histVars>>

---------------------------------------------------------------------------
(* Helpers *)

Min(a, b) == IF a < b THEN a ELSE b

\* a timer that is running advances and saturates at the heartbeat interval
Adv(t, d) == IF t < 0 THEN t ELSE Min(t + d, HEARTBEAT_INTERVAL_MS)

AudioPacket(kind, n, stamp) ==
    [packet_type |-> kind, seq |-> n, timestamp_ms |-> stamp]

\* the timestamp_ms argument of AudioPacket::new_heartbeat(0, 0)
heartbeat_stamp(elapsed) == 0

\* AudioPacket::new_heartbeat(0, 0)
new_heartbeat == AudioPacket(PACKET_TYPE_HEARTBEAT, 0, heartbeat_stamp(elapsed_ms))

\* self.start_time.elapsed().as_millis() as u64
fft_stamp(elapsed) == elapsed

\* AudioPacket::new_fft, numbered by the send cycle that built it and stamped
\* with the time since the plugin was constructed
new_fft(n) == AudioPacket(PACKET_TYPE_FFT, n, fft_stamp(elapsed_ms))

\* a channel without a capacity
try_send_unbounded(lane, receiver_alive, packet) ==
    IF receiver_alive THEN Append(lane, packet) ELSE lane

\* a full channel that evicts its oldest entry to take the new one
try_send_evicting(lane, receiver_alive, packet) ==
    IF ~receiver_alive THEN lane
    ELSE IF Len(lane) < LANE_CAPACITY THEN Append(lane, packet)
    ELSE Append(Tail(lane), packet)

\* a channel that enqueues at the front
try_send_front(lane, receiver_alive, packet) ==
    IF receiver_alive /\ Len(lane) < LANE_CAPACITY
    THEN <<packet>> \o lane
    ELSE lane

\* crossbeam Sender::try_send on a bounded(32) channel: Err(Disconnected)
\* when the receiver is gone, Err(Full) at capacity, else enqueue at the back
try_send(lane, receiver_alive, packet) ==
    IF receiver_alive /\ Len(lane) < LANE_CAPACITY
    THEN Append(lane, packet)
    ELSE lane

\* the receiver of the channel packet_sender is attached to: the one made in
\* new() is dropped at once, the one made in start() lives in the thread
ws_receiver_alive == thread_handle = "Some" /\ pc # "done"

RECURSIVE Pow2(_)
Pow2(n) == IF n <= 0 THEN 1 ELSE 2 * Pow2(n - 1)

\* doubling without the cap
next_delay_uncapped(d) == d * 2

\* (reconnect_delay * 2).min(max_reconnect_delay)
next_delay(d) == Min(d * 2, MAX_RECONNECT_DELAY_MS)

\* a heartbeat on every idle iteration
heartbeat_due_always(elapsed) == TRUE

\* last_heartbeat.elapsed() >= heartbeat_interval
heartbeat_due(elapsed) == elapsed >= HEARTBEAT_INTERVAL_MS

\* a heartbeat that does not restart last_heartbeat
elapsed_after_heartbeat_kept(elapsed, d) == Adv(elapsed, d)

\* last_heartbeat.elapsed() at the end of an iteration that sent a heartbeat
\* (last_heartbeat = Instant::now()) and then slept d
elapsed_after_heartbeat(elapsed, d) == Adv(0, d)

---------------------------------------------------------------------------
(* Initial state: WebSocketClient::new and HardwaveBridge::default *)

Init ==
    /\ state = "Disconnected"
    /\ shutdown = FALSE
    /\ thread_handle = "None"
    /\ owner = "alive"
    /\ pc = "idle"
    /\ reconnect_delay = INITIAL_RECONNECT_DELAY_MS
    /\ hb_elapsed = 0
    /\ ws_lane = <<>>
    /\ editor_lane = <<>>
    /\ editor_open \in BOOLEAN
    /\ offered = 0
    /\ wire = <<>>
    /\ popped = <<>>
    /\ attempts = 0
    /\ polls = 0
    /\ fails = 0
    /\ connected_before = FALSE
    /\ last_attempt = "none"
    /\ last_wait = 0
    /\ waits = 0
    /\ slept = 0
    /\ fails_before = 0
    /\ since_conn = -1
    /\ since_hb = -1
    /\ since_msg = -1
    /\ since_payload = -1
    /\ last_error = "none"
    /\ server_port = DEFAULT_PORT
    /\ port = 0
    /\ last_set = DEFAULT_PORT
    /\ spawned = 0
    /\ lane_id = 0
    /\ params_port = DEFAULT_PORT
    /\ enabled = TRUE
    /\ last_port = DEFAULT_PORT
    /\ sample_rate = DEFAULT_SAMPLE_RATE
    /\ samples_per_send = DEFAULT_SAMPLES_PER_SEND
    /\ samples_since_send = 0
    /\ buffer_left = <<>>
    /\ buffer_right = <<>>
    /\ samples_in = 0
    /\ cleared_at = 0
    /\ num_channels = 2
    /\ calls = 0
    /\ reset_at = -1
    /\ last_send_at = 0
    /\ codec_pkt = <<>>
    /\ codec_bytes = <<>>
    /\ codec_back = <<>>
    /\ elapsed_ms = 0
    /\ ed_enqueued = 0
    /\ ed_pc = "sleep"
    /\ ed_latest = <<>>
    /\ ed_shown = <<>>
    /\ ed_passes = 0
    /\ hs_stream = <<>>
    /\ total_read = 0
    /\ hs_result = "idle"
    /\ an_calls = 0
    /\ an_input = <<>>
    /\ an_bands = <<>>
    /\ fft_loaded = <<>>
    /\ an_samples = <<>>
    /\ an_levels = <<>>
    /\ after_connects = 0
    /\ after_writes = 0
    /\ read_set = FALSE
    /\ last_call = "none"
    /\ port_lock = "free"
    /\ state_lock = "free"
    /\ ed_handle = 0
    /\ th_pc = [t \in EdThreads |-> "unborn"]
    /\ th_running = [t \in EdThreads |-> FALSE]
    /\ th_latest = [t \in EdThreads |-> <<>>]

---------------------------------------------------------------------------
(* The owner's calls *)

\* a start() without the early return
start_spawns_always(handle) == TRUE

\* start() goes on to spawn unless thread_handle.is_some()
start_spawns(handle) == handle = "None"

\* WebSocketClient::start: a new bounded(32) channel whose sender replaces
\* packet_sender and whose receiver moves into the spawned thread
Start ==
    /\ owner = "alive"
    /\ start_spawns(thread_handle)
    /\ thread_handle' = "Some"
    /\ ws_lane' = <<>>
    /\ pc' = "top"
    /\ spawned' = spawned + 1
    /\ lane_id' = lane_id + 1
    /\ UNCHANGED <<state, shutdown, owner, reconnect_delay, hb_elapsed,
                   editor_lane, editor_open, offered, ed_enqueued, wire, popped,
                   polls>>
    /\ UNCHANGED <<loopHist, connHist, last_error, portVars, pluginVars,
                   codecVars,
                   auxVars>>

\* start() called again: thread_handle.is_some(), early return
StartAgain ==
    /\ owner = "alive"
    /\ ~start_spawns(thread_handle)
    /\ UNCHANGED vars

\* a cast that keeps only the low byte
as_u16_low_byte(p) == p % 256

\* `port as u16` of an i32: the low 16 bits
as_u16(p) == p % U16_RANGE

\* a set_port that also drops the connection
state_after_set_port_reset(current) == "Disconnected"

\* set_port takes the server_port lock only: the Connection State is as before
state_after_set_port(current) == current

\* a guard bound to a name that lives to the end of the enclosing block
after_statement_held(holder) == holder

\* `*m.lock()` in a statement: the MutexGuard is a temporary, dropped when
\* the statement ends, and the mutex is free again
after_statement(holder) == "free"

\* WebSocketClient::set_port; lock() waits while the mutex is held
set_port(p) ==
    /\ port_lock = "free"
    /\ server_port' = as_u16(p)
    /\ last_set' = p
    /\ state' = state_after_set_port(state)


\* a send cycle that gives up when the first offer is refused
offer_to_lanes_chained(ws, ws_alive, ed, ed_alive, packet) ==
    IF ws_alive /\ Len(ws) < LANE_CAPACITY
    THEN <<Append(ws, packet),
           IF ed_alive /\ Len(ed) < LANE_CAPACITY THEN Append(ed, packet) ELSE ed>>
    ELSE <<ws, ed>>

\* the two offers of send_fft_data: ws_client.send(packet.clone()), then
\* editor_packet_tx.try_send(packet), both results ignored
offer_to_lanes(ws, ws_alive, ed, ed_alive, packet) ==
    <<try_send(ws, ws_alive, packet), try_send(ed, ed_alive, packet)>>

\* HardwaveBridge::send_fft_data: one packet, offered to both lanes
send_fft_data ==
    /\ offered' = offered + 1
    /\ LET after == offer_to_lanes(ws_lane, ws_receiver_alive, editor_lane,
                                   editor_open, new_fft(offered + 1))
       IN /\ ws_lane' = after[1]
          /\ editor_lane' = after[2]
          /\ ed_enqueued' = IF after[2] # editor_lane THEN offered + 1
                            ELSE ed_enqueued

\* a send cycle of the producer
SendFftData(limit) ==
    /\ owner = "alive"
    /\ offered < limit
    /\ send_fft_data
    /\ UNCHANGED <<clientVars, threadVars, editor_open, wire, popped, polls>>
    /\ UNCHANGED <<loopHist, connHist, last_error, portVars, startHist,
                   pluginVars, codecVars,
                   auxVars>>

\* WebSocketClient::connection_state and is_connected: reads of the cell
connection_state == state
is_connected == connection_state = "Connected"

---------------------------------------------------------------------------
(* The plugin: HardwaveBridge::initialize, reset and process *)

\* a threshold rounded up
samples_per_send_for_ceil(rate) == (rate + SEND_RATE_HZ - 1) \div SEND_RATE_HZ

\* (sample_rate / 20.0) as usize
samples_per_send_for(rate) == rate \div SEND_RATE_HZ

\* the right-hand sample that comes with left-hand sample k: its own in a
\* stereo layout (written -k), a copy of the left one in a mono layout
right_sample(k, channels) == IF channels > 1 THEN -k ELSE k

\* an insert that never evicts
push_sample_unbounded(w, k, channels) ==
    <<Append(w[1], k), Append(w[2], right_sample(k, channels)), w[3] + 1>>

\* one iteration of the sample loop on <<buffer_left, buffer_right,
\* samples_since_send>>: push both, remove(0) from both if the left one is
\* longer than FFT_SIZE, count the sample
push_sample(w, k, channels) ==
    LET left == Append(w[1], k)
        right == Append(w[2], right_sample(k, channels))
    IN IF Len(left) > FFT_SIZE
       THEN <<Tail(left), Tail(right), w[3] + 1>>
       ELSE <<left, right, w[3] + 1>>

\* the sample loop over samples lo..hi, in order (the first half is evaluated
\* before the second is entered; the counter is never negative)
RECURSIVE append_samples(_, _, _, _)
append_samples(w, lo, hi, channels) ==
    IF lo > hi THEN w
    ELSE IF lo = hi THEN push_sample(w, lo, channels)
    ELSE LET mid == (lo + hi) \div 2
             first == append_samples(w, lo, mid, channels)
         IN IF first[3] >= 0
            THEN append_samples(first, mid + 1, hi, channels)
            ELSE first

\* a send condition that ignores how full the window is
send_due_unfilled(since, per_send, held) == since >= per_send

\* samples_since_send >= samples_per_send && buffer_left.len() >= FFT_SIZE
send_due(since, per_send, held) == since >= per_send /\ held >= FFT_SIZE

\* a clear that leaves the window as it is
clear_kept(w) == w

\* Vec::clear
clear(w) == <<>>

\* HardwaveBridge::initialize
Initialize(rate, channels) ==
    /\ owner = "alive"
    /\ sample_rate' = rate
    /\ samples_per_send' = samples_per_send_for(rate)
    /\ num_channels' = channels
    /\ buffer_left' = clear(buffer_left)
    /\ buffer_right' = clear(buffer_right)
    /\ cleared_at' = samples_in
    /\ set_port(params_port)
    /\ last_port' = params_port
    /\ UNCHANGED <<shutdown, thread_handle, owner, threadVars, laneVars, wire,
                   popped, polls, loopHist, connHist, last_error, port,
                   startHist, params_port, enabled, samples_since_send,
                   samples_in, calls, reset_at, last_send_at, codecVars,
                   auxVars>>

\* HardwaveBridge::reset
Reset ==
    /\ owner = "alive"
    /\ buffer_left' = clear(buffer_left)
    /\ buffer_right' = clear(buffer_right)
    /\ cleared_at' = samples_in
    /\ reset_at' = samples_in
    /\ samples_since_send' = 0
    /\ UNCHANGED <<clientVars, threadVars, laneVars, wire, popped, polls,
                   loopHist, connHist, last_error, portVars, startHist,
                   params_port, enabled, last_port, sample_rate,
                   samples_per_send, samples_in, num_channels, calls,
                   last_send_at, codecVars,
                   auxVars>>

\* a process that goes on with Enabled off
returns_early_never(e) == FALSE

\* if !self.params.enabled.value() { return ProcessStatus::Normal; }
returns_early(e) == ~e

\* HardwaveBridge::process on a block of n samples
Process(n, limit) ==
    /\ owner = "alive"
    /\ calls < limit
    /\ calls' = calls + 1
    /\ IF params_port # last_port
       THEN /\ set_port(params_port)
            /\ last_port' = params_port
       ELSE UNCHANGED <<server_port, last_set, state, last_port>>
    /\ last_call' = IF ~returns_early(enabled) THEN "ran"
                    ELSE IF params_port # last_port THEN "idle_forwarded"
                    ELSE "idle"
    /\ IF returns_early(enabled)
       THEN UNCHANGED <<buffer_left, buffer_right, samples_since_send,
                        samples_in, last_send_at, laneVars>>
       ELSE LET w == append_samples(<<buffer_left, buffer_right,
                                      samples_since_send>>,
                                    samples_in + 1, samples_in + n, num_channels)
            IN /\ buffer_left' = w[1]
               /\ buffer_right' = w[2]
               /\ samples_in' = samples_in + n
               /\ IF send_due(w[3], samples_per_send, Len(w[1]))
                  THEN /\ send_fft_data
                       /\ samples_since_send' = 0
                       /\ last_send_at' = samples_in + n
                       /\ UNCHANGED editor_open
                  ELSE /\ samples_since_send' = w[3]
                       /\ UNCHANGED <<last_send_at, laneVars>>
    /\ UNCHANGED <<shutdown, thread_handle, owner, threadVars, wire, popped,
                   polls, loopHist, connHist, last_error, port, startHist,
                   params_port, enabled, sample_rate, samples_per_send,
                   cleared_at, num_channels, reset_at, codecVars,
                   sideVars, stopHist, lockVars, reopenVars>>

\* the host changes the Enabled parameter
HostSetEnabled(b) ==
    /\ owner = "alive"
    /\ enabled' = b
    /\ UNCHANGED <<clientVars, threadVars, laneVars, wire, popped, polls,
                   loopHist, connHist, last_error, portVars, startHist,
                   params_port, last_port, sample_rate, samples_per_send,
                   samples_since_send, buffer_left, buffer_right, samples_in,
                   cleared_at, num_channels, calls, reset_at, last_send_at,
                   codecVars,
                   auxVars>>

\* the host changes the Port parameter
HostSetPort(p) ==
    /\ owner = "alive"
    /\ params_port' = p
    /\ UNCHANGED <<clientVars, threadVars, laneVars, wire, popped, polls,
                   loopHist, connHist, last_error, portVars, startHist,
                   enabled, last_port, sample_rate, samples_per_send,
                   samples_since_send, buffer_left, buffer_right, samples_in,
                   cleared_at, num_channels, calls, reset_at, last_send_at,
                   codecVars,
                   auxVars>>

\* time passes on the producer's clock (Instant is monotonic)
Tick(d, limit) ==
    /\ elapsed_ms + d <= limit
    /\ elapsed_ms' = elapsed_ms + d
    /\ UNCHANGED <<clientVars, threadVars, laneVars, wire, popped, polls,
                   loopHist, connHist, last_error, portVars, startHist,
                   pluginVars, codecVars, editorVars, handshakeVars,
                   analyserVars, histVars>>

\* a pass that keeps the first packet it pops
kept_after_pop_first(latest, packet) ==
    IF latest = <<>> THEN <<packet>> ELSE latest

\* latest = Some(packet)
kept_after_pop(latest, packet) == <<packet>>

\* the editor thread wakes and starts a pass: let mut latest = None
DrainBegin(limit) ==
    /\ editor_open
    /\ ed_pc = "sleep"
    /\ ed_passes < limit
    /\ ed_pc' = "drain"
    /\ ed_latest' = <<>>
    /\ UNCHANGED <<ed_shown, ed_passes, elapsed_ms, handshakeVars, analyserVars, histVars>>
    /\ UNCHANGED <<clientVars, threadVars, laneVars, wire, popped, polls,
                   loopHist, connHist, last_error, portVars, startHist,
                   pluginVars, codecVars>>

\* while let Ok(packet) = packet_rx.try_recv() { latest = Some(packet) }
DrainPop ==
    /\ ed_pc = "drain"
    /\ editor_lane # <<>>
    /\ editor_lane' = Tail(editor_lane)
    /\ ed_latest' = kept_after_pop(ed_latest, Head(editor_lane))
    /\ UNCHANGED <<ed_pc, ed_shown, ed_passes, elapsed_ms, handshakeVars, analyserVars, histVars>>
    /\ UNCHANGED <<clientVars, threadVars, ws_lane, editor_open, offered,
                   ed_enqueued, wire, popped, polls, loopHist, connHist,
                   last_error, portVars, startHist, pluginVars, codecVars>>

\* try_recv finds the lane empty: the pass is over; a kept packet goes to
\* webview.evaluate_script, then thread::sleep(16ms)
DrainEnd ==
    /\ ed_pc = "drain"
    /\ editor_lane = <<>>
    /\ ed_shown' = IF ed_latest # <<>> THEN Append(ed_shown, ed_latest[1])
                   ELSE ed_shown
    /\ ed_pc' = "sleep"
    /\ ed_passes' = ed_passes + 1
    /\ UNCHANGED <<ed_latest, elapsed_ms, handshakeVars, analyserVars, histVars>>
    /\ UNCHANGED <<clientVars, threadVars, laneVars, wire, popped, polls,
                   loopHist, connHist, last_error, portVars, startHist,
                   pluginVars, codecVars>>

\* what the editor's actions leave alone
ReopenFrame ==
    UNCHANGED <<clientVars, threadVars, ws_lane, editor_open, offered,
                ed_enqueued, wire, popped, polls, loopHist, connHist,
                last_error, portVars, startHist, pluginVars, codecVars,
                sideVars, stopHist, gateHist, lockVars>>

\* Editor::spawn: a clone of packet_rx, a new `running` flag set to true, a
\* new thread that builds the webview, and the EditorHandle returned
EditorSpawn(webview) ==
    /\ editor_open
    /\ ed_handle = 0
    /\ \E t \in EdThreads :
          /\ th_pc[t] = "unborn"
          /\ \A u \in EdThreads : u < t => th_pc[u] # "unborn"
          /\ ed_handle' = t
          /\ th_running' = [th_running EXCEPT ![t] = TRUE]
          /\ th_pc' = [th_pc EXCEPT ![t] = IF webview = "Ok" THEN "check"
                                          ELSE "exited"]
    /\ UNCHANGED <<th_latest, editor_lane>>
    /\ ReopenFrame

\* Drop for EditorHandle: running.store(false); the thread is not joined
EditorHandleDrop ==
    /\ ed_handle # 0
    /\ th_running' = [th_running EXCEPT ![ed_handle] = FALSE]
    /\ ed_handle' = 0
    /\ UNCHANGED <<th_pc, th_latest, editor_lane>>
    /\ ReopenFrame

\* while running_clone.load(Relaxed) { let mut latest = None; ...
ThreadCheck(t) ==
    /\ th_pc[t] = "check"
    /\ th_pc' = [th_pc EXCEPT ![t] = IF th_running[t] THEN "drain" ELSE "exited"]
    /\ th_latest' = [th_latest EXCEPT ![t] = <<>>]
    /\ UNCHANGED <<ed_handle, th_running, editor_lane>>
    /\ ReopenFrame

\* while let Ok(packet) = packet_rx.try_recv() { latest = Some(packet) }
ThreadPop(t) ==
    /\ th_pc[t] = "drain"
    /\ editor_lane # <<>>
    /\ editor_lane' = Tail(editor_lane)
    /\ th_latest' = [th_latest EXCEPT
                        ![t] = kept_after_pop(th_latest[t], Head(editor_lane))]
    /\ UNCHANGED <<ed_handle, th_pc, th_running>>
    /\ ReopenFrame

\* try_recv finds the lane empty: evaluate_script, thread::sleep(16ms), and
\* back to the loop condition
ThreadPassEnd(t) ==
    /\ th_pc[t] = "drain"
    /\ editor_lane = <<>>
    /\ th_pc' = [th_pc EXCEPT ![t] = "check"]
    /\ UNCHANGED <<ed_handle, th_running, th_latest, editor_lane>>
    /\ ReopenFrame

\* Drop for WebSocketClient, up to the join
DropClient ==
    /\ owner = "alive"
    /\ shutdown' = TRUE
    /\ owner' = IF thread_handle = "Some" THEN "joining" ELSE "dropped"
    /\ UNCHANGED <<state, thread_handle, threadVars, laneVars, wire, popped, polls>>
    /\ UNCHANGED <<loopHist, connHist, last_error, portVars, startHist,
                   pluginVars, codecVars,
                   auxVars>>

\* handle.join() returns once the thread has exited
JoinReturn ==
    /\ owner = "joining"
    /\ pc = "done"
    /\ owner' = "dropped"
    /\ UNCHANGED <<state, shutdown, thread_handle, threadVars, laneVars, wire,
                   popped, polls>>
    /\ UNCHANGED <<loopHist, connHist, last_error, portVars, startHist,
                   pluginVars, codecVars,
                   auxVars>>

---------------------------------------------------------------------------
(* The streaming thread: WebSocketClient::connection_loop *)

\* a loop condition that never reads the flag
keep_running_always(flag) == TRUE

\* while !shutdown.load(Relaxed)
keep_running(flag) == ~flag

\* a failed write that is reported as the Error state
state_after_write_error(current, outcome) ==
    IF outcome = "ok" THEN current ELSE "Error"

\* a failed write that leaves the Connection State as it was
state_after_write_kept(current, outcome) == current

\* the Connection State after socket.send / socket.flush of one message:
\* written (Disconnected) only when one of them fails
state_after_write(current, outcome) ==
    IF outcome = "ok" THEN current ELSE "Disconnected"

\* a successful connect that leaves the backoff where it was
delay_after_connect_kept(d) == d

\* a successful connect that only halves the backoff
delay_after_connect_halved(d) ==
    IF d \div 2 < INITIAL_RECONNECT_DELAY_MS
    THEN INITIAL_RECONNECT_DELAY_MS ELSE d \div 2

\* reconnect_delay after a successful try_connect
delay_after_connect(d) == INITIAL_RECONNECT_DELAY_MS

\* a port read once, when the thread starts
port_for_attempt_cached(previous, current) ==
    IF previous = 0 THEN current ELSE previous

\* let port = *server_port.lock(), at the top of every iteration
port_for_attempt(previous, current) == current

\* Result of try_connect: every failing step returns Err(()) (`?` on a
\* map_err(|_| ()), or an explicit return Err(()))
try_connect(outcome) == IF outcome \in ConnectFailures THEN "Err" ELSE "Ok"

\* a failed read that takes the thread down (an unwrap in place of `?`)
after_connect_error_fatal(outcome) ==
    IF outcome = "read_err" THEN "done" ELSE "wait_check"

\* a failed attempt that is retried at once
after_connect_error_retry(outcome) == "top"

\* where the loop goes from the Err arm of the match: on to the backoff
after_connect_error(outcome) == "wait_check"

\* a handler that carries on after a failed flush
after_write_flush_ignored(outcome) ==
    IF outcome = "send_err" THEN "wait_check" ELSE "h_check"

\* where the handler goes after socket.send and socket.flush of one message:
\* on to the sleep and the next iteration, or `return` on either failure
after_write(outcome) == IF outcome = "ok" THEN "h_check" ELSE "wait_check"

\* a write that is tried again when the flush fails
wire_after_write_retried(w, message, outcome) ==
    IF outcome = "send_err" THEN w
    ELSE IF outcome = "flush_err" THEN Append(Append(w, message), message)
    ELSE Append(w, message)

\* what has been handed to the socket after socket.send and socket.flush of
\* one message: nothing more when send fails, the message once otherwise
wire_after_write(w, message, outcome) ==
    IF outcome = "send_err" THEN w ELSE Append(w, message)

\* top of the loop: the shutdown check, the port, then state = Connecting
LoopTop(limit) ==
    /\ pc = "top"
    /\ IF keep_running(shutdown)
       THEN /\ attempts < limit
            /\ port_lock = "free"
            /\ state_lock = "free"
            /\ port_lock' = after_statement("thread")
            /\ state_lock' = after_statement("thread")
            /\ port' = port_for_attempt(port, server_port)
            /\ state' = "Connecting"
            /\ attempts' = attempts + 1
            /\ slept' = 0
            /\ pc' = "connect"
            /\ UNCHANGED read_set
       ELSE /\ pc' = "done"
            /\ read_set' = TRUE
            /\ UNCHANGED lockVars
            /\ UNCHANGED <<state, attempts, port, slept>>
    /\ UNCHANGED <<shutdown, thread_handle, owner, reconnect_delay, hb_elapsed,
                   laneVars, wire, popped, polls, fails, connected_before,
                   last_attempt, last_wait, waits, fails_before, connHist>>
    /\ UNCHANGED <<last_error, server_port, last_set, startHist, pluginVars,
                   codecVars,
                   sideVars, reopenVars, gateHist, after_connects, after_writes>>

\* match Self::try_connect(port): Ok enters handle_connection, whose first
\* statement takes last_heartbeat = Instant::now(); Err sets Disconnected
TryConnect(outcome) ==
    /\ pc = "connect"
    /\ state_lock = "free"
    /\ state_lock' = after_statement("thread")
    /\ IF try_connect(outcome) = "Ok"
       THEN /\ state' = "Connected"
            /\ reconnect_delay' = delay_after_connect(reconnect_delay)
            /\ hb_elapsed' = 0
            /\ pc' = "h_check"
            /\ fails' = 0
            /\ fails_before' = fails
            /\ waits' = 0
            /\ connected_before' = TRUE
            /\ last_attempt' = "connected"
            /\ since_conn' = 0
            /\ since_hb' = -1
            /\ since_msg' = -1
            /\ since_payload' = -1
            /\ last_error' = "none"
       ELSE /\ state' = "Disconnected"
            /\ pc' = after_connect_error(outcome)
            /\ fails' = fails + 1
            /\ last_attempt' = "failed"
            /\ last_error' = outcome
            /\ UNCHANGED <<reconnect_delay, hb_elapsed, waits, connected_before,
                           fails_before, connHist>>
    /\ after_connects' = IF shutdown THEN after_connects + 1 ELSE after_connects
    /\ UNCHANGED <<shutdown, thread_handle, owner, laneVars, wire, popped,
                   polls, attempts, last_wait, slept>>
    /\ UNCHANGED <<portVars, startHist, pluginVars, codecVars,
                   sideVars, reopenVars, gateHist, after_writes, read_set, port_lock>>

\* the connection has ended: handle_connection's locals go out of scope
ConnectionOver ==
    /\ hb_elapsed' = 0
    /\ since_conn' = -1
    /\ since_hb' = -1
    /\ since_msg' = -1
    /\ since_payload' = -1

\* handle_connection: while !shutdown.load(Relaxed)
HandleCheck(limit) ==
    /\ pc = "h_check"
    /\ IF keep_running(shutdown)
       THEN /\ polls < limit
            /\ polls' = polls + 1
            /\ pc' = "h_body"
            /\ UNCHANGED <<hb_elapsed, connHist, read_set>>
       ELSE /\ pc' = "wait_check"
            /\ ConnectionOver
            /\ read_set' = TRUE
            /\ UNCHANGED polls
    /\ UNCHANGED <<clientVars, reconnect_delay, laneVars, wire, popped, loopHist>>
    /\ UNCHANGED <<last_error, portVars, startHist, pluginVars, codecVars,
                   sideVars, reopenVars, gateHist, lockVars, after_connects, after_writes>>

\* one body of the connected loop: try_recv, the write and flush of a payload
\* packet or of a due heartbeat, then thread::sleep(1ms), which lasts d
HandleBody(outcome, d) ==
    /\ pc = "h_body"
    /\ IF outcome # "ok"
       THEN /\ state_lock = "free"
            /\ state_lock' = after_statement("thread")
       ELSE UNCHANGED state_lock
    /\ IF ws_lane # <<>>
       THEN \* Ok(packet)
            /\ ws_lane' = Tail(ws_lane)
            /\ popped' = Append(popped, Head(ws_lane))
            /\ wire' = wire_after_write(wire, Head(ws_lane), outcome)
            /\ state' = state_after_write(state, outcome)
            /\ last_error' = IF outcome = "ok" THEN last_error ELSE outcome
            /\ pc' = after_write(outcome)
            /\ IF after_write(outcome) = "h_check"
               THEN /\ hb_elapsed' = Adv(hb_elapsed, d)
                    /\ since_conn' = Adv(since_conn, d)
                    /\ since_hb' = Adv(since_hb, d)
                    /\ since_msg' = Adv(0, d)
                    /\ since_payload' = Adv(0, d)
               ELSE ConnectionOver
       ELSE IF owner # "dropped"
       THEN \* Err(TryRecvError::Empty)
            IF heartbeat_due(hb_elapsed)
            THEN /\ wire' = wire_after_write(wire, new_heartbeat, outcome)
                 /\ state' = state_after_write(state, outcome)
                 /\ last_error' = IF outcome = "ok" THEN last_error ELSE outcome
                 /\ UNCHANGED <<ws_lane, popped>>
                 /\ pc' = after_write(outcome)
                 /\ IF after_write(outcome) = "h_check"
                    THEN /\ hb_elapsed' = elapsed_after_heartbeat(hb_elapsed, d)
                         /\ since_conn' = Adv(since_conn, d)
                         /\ since_hb' = Adv(0, d)
                         /\ since_msg' = Adv(0, d)
                         /\ since_payload' = Adv(since_payload, d)
                    ELSE ConnectionOver
            ELSE /\ outcome = "ok"
                 /\ pc' = "h_check"
                 /\ hb_elapsed' = Adv(hb_elapsed, d)
                 /\ since_conn' = Adv(since_conn, d)
                 /\ since_hb' = Adv(since_hb, d)
                 /\ since_msg' = Adv(since_msg, d)
                 /\ since_payload' = Adv(since_payload, d)
                 /\ UNCHANGED <<state, ws_lane, popped, wire, last_error>>
       ELSE \* Err(TryRecvError::Disconnected): the sender is gone
            /\ outcome = "ok"
            /\ pc' = "wait_check"
            /\ ConnectionOver
            /\ UNCHANGED <<state, ws_lane, popped, wire, last_error>>
    /\ after_writes' = IF shutdown /\ (ws_lane # <<>> \/ (owner # "dropped"
                                 /\ heartbeat_due(hb_elapsed)))
                        THEN after_writes + 1 ELSE after_writes
    /\ UNCHANGED <<shutdown, thread_handle, owner, reconnect_delay, editor_lane,
                   editor_open, offered, ed_enqueued, polls, loopHist>>
    /\ UNCHANGED <<portVars, startHist, pluginVars, codecVars,
                   sideVars, reopenVars, gateHist, after_connects, read_set, port_lock>>

\* if !shutdown.load(Relaxed) { thread::sleep(reconnect_delay) ...
WaitCheck ==
    /\ pc = "wait_check"
    /\ IF keep_running(shutdown)
       THEN /\ pc' = "sleeping"
            /\ last_wait' = reconnect_delay
            /\ waits' = waits + 1
            /\ slept' = slept + 1
            /\ UNCHANGED read_set
       ELSE /\ pc' = "top"
            /\ read_set' = TRUE
            /\ UNCHANGED <<last_wait, waits, slept>>
    /\ UNCHANGED <<clientVars, reconnect_delay, hb_elapsed, laneVars, wire,
                   popped, polls, attempts, fails, connected_before,
                   last_attempt, fails_before, connHist>>
    /\ UNCHANGED <<last_error, portVars, startHist, pluginVars, codecVars,
                   sideVars, reopenVars, gateHist, lockVars, after_connects, after_writes>>

\* ... the sleep returns; reconnect_delay = (reconnect_delay * 2).min(max) }
BackoffWake ==
    /\ pc = "sleeping"
    /\ reconnect_delay' = next_delay(reconnect_delay)
    /\ pc' = "top"
    /\ UNCHANGED <<clientVars, hb_elapsed, laneVars, wire, popped, polls,
                   loopHist, connHist>>
    /\ UNCHANGED <<last_error, portVars, startHist, pluginVars, codecVars,
                   auxVars>>

---------------------------------------------------------------------------
(* The handshake read loop of try_connect.  Bytes are their values; text is
   ASCII, and every byte above 127 in the responses explored stands where no
   UTF-8 sequence can have it. *)

\* let mut response = [0u8; 1024]
RESPONSE_LEN == 1024

\* b"\r\n\r\n"
TERMINATOR == <<13, 10, 13, 10>>

\* "101"
STATUS_101 == <<49, 48, 49>>

\* "upgrade"
UPGRADE_LOWER == <<117, 112, 103, 114, 97, 100, 101>>

\* "101 Upgrade", "101 UPGRADE", "400 Upgrade"
HEAD_SWITCHING == STATUS_101 \o <<32, 85, 112, 103, 114, 97, 100, 101>>
HEAD_SHOUTING == STATUS_101 \o <<32, 85, 80, 71, 82, 65, 68, 69>>
HEAD_REFUSED == <<52, 48, 48, 32, 85, 112, 103, 114, 97, 100, 101>>

\* n bytes of header text ("x")
padding(n) == [i \in 1..n |-> 120]

\* the first bytes of a WebSocket frame (an empty binary message)
FRAME == <<130, 0>>

\* what the peer may send: a switch of protocols; the same followed at once
\* by a frame; the same in capitals; a refusal; a switch whose header block
\* ends at byte 1024, and one byte later; one with a byte that is not text;
\* one that stops before the end of the headers
Responses ==
    { HEAD_SWITCHING \o TERMINATOR,
      HEAD_SWITCHING \o TERMINATOR \o FRAME,
      HEAD_SHOUTING \o TERMINATOR,
      HEAD_REFUSED \o TERMINATOR,
      HEAD_SWITCHING \o padding(RESPONSE_LEN - Len(HEAD_SWITCHING) - 4)
          \o TERMINATOR,
      HEAD_SWITCHING \o padding(RESPONSE_LEN - Len(HEAD_SWITCHING) - 3)
          \o TERMINATOR,
      HEAD_SWITCHING \o <<255>> \o TERMINATOR,
      HEAD_SWITCHING }

\* how many bytes one read may return, when that many are there
ReadSizes == {1, 2, 5, RESPONSE_LEN}

\* haystack.contains(needle)
contains(hay, needle) ==
    \E i \in 1..(Len(hay) - Len(needle) + 1) :
        SubSeq(hay, i, i + Len(needle) - 1) = needle

\* str::to_lowercase on ASCII text
to_lowercase(text) ==
    [i \in 1..Len(text) |->
        IF text[i] \in 65..90 THEN text[i] + 32 ELSE text[i]]

\* std::str::from_utf8(..).is_ok()
is_utf8(bytes) == \A i \in 1..Len(bytes) : bytes[i] < 128

\* total_read >= 4 && &response[total_read - 4..total_read] == b"\r\n\r\n"
headers_ended(response, total) ==
    total >= 4 /\ SubSeq(response, total - 3, total) = TERMINATOR

\* the checks after the loop, on response[..total_read]
verify_response(response) ==
    IF ~is_utf8(response) THEN "not_utf8"
    ELSE IF ~contains(response, STATUS_101)
            \/ ~contains(to_lowercase(response), UPGRADE_LOWER)
    THEN "not_upgrade"
    ELSE "handshake"

\* write_all of the request has returned; the peer's answer is on its way
SendRequest(answer) ==
    /\ hs_result = "idle"
    /\ hs_stream' = answer
    /\ total_read' = 0
    /\ hs_result' = "reading"
    /\ UNCHANGED <<clientVars, threadVars, laneVars, wire, popped, polls,
                   loopHist, connHist, last_error, portVars, startHist,
                   pluginVars, codecVars, editorVars, elapsed_ms, analyserVars, histVars>>

\* one iteration of the read loop in which read returns n bytes (n > 0, no
\* more than are there and no more than the rest of the buffer)
ReadSome(n) ==
    /\ hs_result = "reading"
    /\ n >= 1
    /\ n <= Len(hs_stream) - total_read
    /\ n <= RESPONSE_LEN - total_read
    /\ total_read' = total_read + n
    /\ hs_result' =
          IF headers_ended(hs_stream, total_read + n)
          THEN verify_response(SubSeq(hs_stream, 1, total_read + n))
          ELSE IF total_read + n >= RESPONSE_LEN THEN "overflow"
          ELSE "reading"
    /\ UNCHANGED hs_stream
    /\ UNCHANGED <<clientVars, threadVars, laneVars, wire, popped, polls,
                   loopHist, connHist, last_error, portVars, startHist,
                   pluginVars, codecVars, editorVars, elapsed_ms, analyserVars, histVars>>

\* an iteration in which nothing more arrives: read returns Ok(0) when the
\* peer has closed, Err when the 100ms read timeout passes
ReadNothing(outcome) ==
    /\ hs_result = "reading"
    /\ total_read = Len(hs_stream)
    /\ hs_result' = outcome
    /\ UNCHANGED <<hs_stream, total_read>>
    /\ UNCHANGED <<clientVars, threadVars, laneVars, wire, popped, polls,
                   loopHist, connHist, last_error, portVars, startHist,
                   pluginVars, codecVars, editorVars, elapsed_ms, analyserVars, histVars>>

---------------------------------------------------------------------------
(* The analyser: FftProcessor::process and calculate_levels.  A linear
   amplitude is an integer number of thousandths, a level in dB an integer
   number of hundredths of a dB, and either may be NAN.  The transform
   (rustfft) is not computed: an input names the average magnitude it has in
   each band, normalised by 2 / FFT_SIZE, and every output bin of a transform
   is a sum over all its inputs, so one NaN sample makes every magnitude NaN. *)

\* f32::NAN, written as a number that no amplitude or level explored takes
NAN == 99999999

\* -100.0 and 0.0 dB
DB_FLOOR == -10000
DB_CEIL == 0

\* 20.0 * (x + 1e-10).log10() at the amplitudes explored: 0, 0.001, 0.25,
\* 0.5, 1 and 2 (the 1e-10 decides the value at 0 only)
Amplitudes == {0, 1, 250, 500, 1000, 2000}
db_of(x) ==
    IF x = NAN THEN NAN
    ELSE CASE x = 0 -> -20000
           [] x = 1 -> -6000
           [] x = 250 -> -1204
           [] x = 500 -> -602
           [] x = 1000 -> 0
           [] x = 2000 -> 602

\* f32::clamp: NaN if self is NaN
clamp(x, lo, hi) ==
    IF x = NAN THEN NAN
    ELSE IF x < lo THEN lo
    ELSE IF x > hi THEN hi
    ELSE x

\* the spectra explored: the same magnitude in every band, and one that
\* steps through the amplitudes from band to band
Spectra ==
    { [i \in 1..NUM_BANDS |-> a] : a \in Amplitudes } \cup
    { [i \in 1..NUM_BANDS |->
          CASE i % 4 = 0 -> 0 [] i % 4 = 1 -> 250
            [] i % 4 = 2 -> 1000 [] i % 4 = 3 -> 2000] }

\* the windows handed to process: their length, whether a sample is NaN, and
\* the spectrum of the samples
Windows ==
    [len : {0, FFT_SIZE - 1, FFT_SIZE}, nan : BOOLEAN, spectrum : Spectra]

\* avg_magnitude * 2.0 / FFT_SIZE as f32 for one band
normalized(input, band) ==
    IF input.nan THEN NAN ELSE input.spectrum[band]

\* FftProcessor::process
process(input) ==
    IF input.len < FFT_SIZE
    THEN [band \in 1..NUM_BANDS |-> DB_FLOOR]
    ELSE [band \in 1..NUM_BANDS |->
             clamp(db_of(normalized(input, band)), DB_FLOOR, DB_CEIL)]

\* a call of process: fft_buffer and magnitude_buffer are written only past
\* the length check
AnalyserProcess(input, limit) ==
    /\ an_calls < limit
    /\ an_calls' = an_calls + 1
    /\ an_input' = <<input>>
    /\ an_bands' = process(input)
    /\ fft_loaded' = IF input.len < FFT_SIZE THEN fft_loaded ELSE <<input>>
    /\ UNCHANGED <<an_samples, an_levels>>
    /\ UNCHANGED <<clientVars, threadVars, laneVars, wire, popped, polls,
                   loopHist, connHist, last_error, portVars, startHist,
                   pluginVars, codecVars, editorVars, handshakeVars, elapsed_ms, histVars>>

\* sample.abs()
abs(x) == IF x < 0 THEN -x ELSE x

\* the loop over the samples from index i on, on <<peak, sum_squares>>:
\* peak = peak.max(abs_sample); sum_squares += sample * sample (millionths)
RECURSIVE levels_loop(_, _, _)
levels_loop(samples, i, acc) ==
    IF i > Len(samples) THEN acc
    ELSE LET abs_sample == abs(samples[i])
         IN levels_loop(samples, i + 1,
                        <<IF abs_sample > acc[1] THEN abs_sample ELSE acc[1],
                          acc[2] + samples[i] * samples[i]>>)

\* a mean that is not divided by the count
mean_square_undivided(sum, count) == sum

\* sum_squares / samples.len() as f32
mean_square(sum, count) == sum \div count

\* the largest r in lo..hi with r * r <= x, by bisection
RECURSIVE root_between(_, _, _)
root_between(x, lo, hi) ==
    IF lo >= hi THEN lo
    ELSE LET mid == (lo + hi + 1) \div 2
         IN IF mid * mid <= x THEN root_between(x, mid, hi)
            ELSE root_between(x, lo, mid - 1)

\* f32::sqrt, to the thousandth below (samples of magnitude up to 2)
sqrt(x) == root_between(x, 0, 2000)

\* FftProcessor::calculate_levels: (peak_db, rms)
calculate_levels(samples) ==
    IF samples = <<>> THEN <<DB_FLOOR, 0>>
    ELSE LET sums == levels_loop(samples, 1, <<0, 0>>)
         IN <<clamp(db_of(sums[1]), DB_FLOOR, DB_CEIL),
              sqrt(mean_square(sums[2], Len(samples)))>>

\* the sample values explored, and the slices of up to LevelMaxLen of them
LevelSamples == {-500, 0, 250, 500, 2000}
LevelInputs == UNION { [1..n -> LevelSamples] : n \in 0..LevelMaxLen }

\* a call of calculate_levels
Levels(samples) ==
    /\ an_samples = <<>>
    /\ an_samples' = <<samples>>
    /\ an_levels' = calculate_levels(samples)
    /\ UNCHANGED <<an_calls, an_input, an_bands, fft_loaded>>
    /\ UNCHANGED <<clientVars, threadVars, laneVars, wire, popped, polls,
                   loopHist, connHist, last_error, portVars, startHist,
                   pluginVars, codecVars, editorVars, handshakeVars, elapsed_ms, histVars>>

---------------------------------------------------------------------------
(* The packet codec: AudioPacket::to_bytes and from_bytes.  bincode's
   serialize/deserialize write a struct as its fields in declaration order,
   integers fixed-width little-endian, f32 as its IEEE-754 bits little-endian,
   and a serde tuple (BigArray) as its elements with no length prefix.  An f32
   is kept as its four bytes, most significant first. *)

F32_ZERO == <<0, 0, 0, 0>>
F32_MINUS_100 == <<194, 200, 0, 0>>
F32_MINUS_60 == <<194, 112, 0, 0>>
F32_MINUS_3 == <<192, 64, 0, 0>>
F32_MINUS_12_3 == <<193, 68, 204, 205>>
F32_HALF == <<63, 0, 0, 0>>

\* [x; NUM_BANDS]
filled(x) == [i \in 1..NUM_BANDS |-> x]

\* a spectrum that falls from band to band, every band a different value
\* between -32 dB and -64 dB
sloped == [i \in 1..NUM_BANDS |-> <<194, i, 0, i>>]

\* AudioPacket::new_fft with every field
fft_packet(rate, stamp, left, right, lpeak, rpeak, lrms, rrms) ==
    [packet_type |-> PACKET_TYPE_FFT, sample_rate |-> rate,
     timestamp_ms |-> stamp, left_bands |-> left, right_bands |-> right,
     left_peak |-> lpeak, right_peak |-> rpeak, left_rms |-> lrms,
     right_rms |-> rrms]

\* AudioPacket::new_heartbeat with every field
heartbeat_packet(rate, stamp) ==
    [packet_type |-> PACKET_TYPE_HEARTBEAT, sample_rate |-> rate,
     timestamp_ms |-> stamp, left_bands |-> filled(F32_ZERO),
     right_bands |-> filled(F32_ZERO), left_peak |-> F32_MINUS_100,
     right_peak |-> F32_MINUS_100, left_rms |-> F32_ZERO,
     right_rms |-> F32_ZERO]

\* the packets explored: the client's heartbeat, heartbeats and FFT packets
\* over several rates and timestamps, silence, the packets of the unit tests,
\* and a packet whose fields and bands all differ
SampleRateValues == {0, 44100, DEFAULT_SAMPLE_RATE}
TimestampValues == {0, 12345, 16777216 + 258}
Packets ==
    { heartbeat_packet(r, t) : r \in SampleRateValues, t \in TimestampValues }
    \cup { fft_packet(r, t, filled(F32_MINUS_100), filled(F32_MINUS_100),
                      F32_MINUS_100, F32_MINUS_100, F32_ZERO, F32_ZERO) :
             r \in SampleRateValues, t \in TimestampValues }
    \cup { fft_packet(r, t, filled(F32_MINUS_60), filled(F32_MINUS_60),
                      F32_MINUS_3, F32_MINUS_3, F32_HALF, F32_HALF) :
             r \in SampleRateValues, t \in TimestampValues }
    \cup { fft_packet(r, t, sloped, filled(F32_MINUS_12_3),
                      F32_MINUS_3, F32_MINUS_12_3, F32_HALF, F32_ZERO) :
             r \in SampleRateValues, t \in TimestampValues }

\* an integer as `width` bytes, least significant first
RECURSIVE le_bytes(_, _)
le_bytes(v, width) ==
    IF width = 0 THEN <<>>
    ELSE <<v % 256>> \o le_bytes(v \div 256, width - 1)

\* the integer that little-endian bytes stand for
RECURSIVE from_le_bytes(_)
from_le_bytes(b) ==
    IF b = <<>> THEN 0 ELSE b[1] + 256 * from_le_bytes(Tail(b))

\* an f32's bytes as written: least significant first
f32_le(x) == <<x[4], x[3], x[2], x[1]>>

\* a reader that takes the bytes in the order they come
f32_from_le_unswapped(b) == b

\* an f32 from its written bytes
f32_from_le(b) == <<b[4], b[3], b[2], b[1]>>

\* an array written as a sequence: a u64 element count, then the elements
array_bytes_prefixed(a) ==
    le_bytes(Len(a), U64_WIDTH) \o
    [k \in 1..(Len(a) * F32_WIDTH) |->
        f32_le(a[((k - 1) \div F32_WIDTH) + 1])[((k - 1) % F32_WIDTH) + 1]]

\* a [f32; NUM_BANDS] written as a tuple: the elements, nothing else
array_bytes(a) ==
    [k \in 1..(Len(a) * F32_WIDTH) |->
        f32_le(a[((k - 1) \div F32_WIDTH) + 1])[((k - 1) % F32_WIDTH) + 1]]

\* the array read back from NUM_BANDS * 4 bytes
array_from_bytes(b) ==
    [i \in 1..NUM_BANDS |->
        f32_from_le(SubSeq(b, (i - 1) * F32_WIDTH + 1, i * F32_WIDTH))]

\* the encoded length of an AudioPacket
PACKET_LEN ==
    U8_WIDTH + U32_WIDTH + U64_WIDTH + 2 * NUM_BANDS * F32_WIDTH + 4 * F32_WIDTH

\* AudioPacket::to_bytes
to_bytes(p) ==
    <<p.packet_type>> \o le_bytes(p.sample_rate, U32_WIDTH)
        \o le_bytes(p.timestamp_ms, U64_WIDTH)
        \o array_bytes(p.left_bands) \o array_bytes(p.right_bands)
        \o f32_le(p.left_peak) \o f32_le(p.right_peak)
        \o f32_le(p.left_rms) \o f32_le(p.right_rms)

\* the bytes from offset `at` (0-based) of the given width
take(b, at, width) == SubSeq(b, at + 1, at + width)

\* AudioPacket::from_bytes: the fields read in declaration order; input that
\* ends early is an error, bytes after the last field are ignored
from_bytes(b) ==
    IF Len(b) < PACKET_LEN THEN <<"Err">>
    ELSE LET rate_at == U8_WIDTH
             stamp_at == rate_at + U32_WIDTH
             left_at == stamp_at + U64_WIDTH
             right_at == left_at + NUM_BANDS * F32_WIDTH
             levels_at == right_at + NUM_BANDS * F32_WIDTH
         IN <<"Ok",
            [packet_type |-> b[1],
             sample_rate |-> from_le_bytes(take(b, rate_at, U32_WIDTH)),
             timestamp_ms |-> from_le_bytes(take(b, stamp_at, U64_WIDTH)),
             left_bands |-> array_from_bytes(take(b, left_at, NUM_BANDS * F32_WIDTH)),
             right_bands |-> array_from_bytes(take(b, right_at, NUM_BANDS * F32_WIDTH)),
             left_peak |-> f32_from_le(take(b, levels_at, F32_WIDTH)),
             right_peak |-> f32_from_le(take(b, levels_at + F32_WIDTH, F32_WIDTH)),
             left_rms |-> f32_from_le(take(b, levels_at + 2 * F32_WIDTH, F32_WIDTH)),
             right_rms |-> f32_from_le(take(b, levels_at + 3 * F32_WIDTH, F32_WIDTH))]>>

\* a packet is built
BuildPacket(p) ==
    /\ codec_pkt = <<>>
    /\ codec_pkt' = <<p>>
    /\ UNCHANGED <<codec_bytes, codec_back>>
    /\ UNCHANGED <<clientVars, threadVars, laneVars, wire, popped, polls,
                   loopHist, connHist, last_error, portVars, startHist,
                   pluginVars, auxVars>>

\* packet.to_bytes()
Encode ==
    /\ codec_pkt # <<>>
    /\ codec_bytes = <<>>
    /\ codec_bytes' = to_bytes(codec_pkt[1])
    /\ UNCHANGED <<codec_pkt, codec_back>>
    /\ UNCHANGED <<clientVars, threadVars, laneVars, wire, popped, polls,
                   loopHist, connHist, last_error, portVars, startHist,
                   pluginVars, auxVars>>

\* AudioPacket::from_bytes(&bytes)
Decode ==
    /\ codec_bytes # <<>>
    /\ codec_back = <<>>
    /\ codec_back' = from_bytes(codec_bytes)
    /\ UNCHANGED <<codec_pkt, codec_bytes>>
    /\ UNCHANGED <<clientVars, threadVars, laneVars, wire, popped, polls,
                   loopHist, connHist, last_error, portVars, startHist,
                   pluginVars, auxVars>>

---------------------------------------------------------------------------
(* Specifications *)

\* every step the owner, the producer and the streaming thread can take, with
\* the run's bounds on offers, connect attempts and connected iterations, the
\* sleep durations and the connect outcomes explored
Step(maxOffers, maxAttempts, maxPolls, sleeps, connects) ==
    \/ Start
    \/ StartAgain
    \/ SendFftData(maxOffers)
    \/ DropClient
    \/ JoinReturn
    \/ LoopTop(maxAttempts)
    \/ \E outcome \in connects : TryConnect(outcome)
    \/ HandleCheck(maxPolls)
    \/ \E outcome \in WriteOutcomes, d \in sleeps : HandleBody(outcome, d)
    \/ WaitCheck
    \/ BackoffWake

\* the host's calls into the plugin, with the run's bound on process calls and
\* the block sizes, sample rates and layouts explored
PluginStep(maxCalls, batches, rates, layouts) ==
    \/ \E rate \in rates, channels \in layouts : Initialize(rate, channels)
    \/ Reset
    \/ \E n \in batches : Process(n, maxCalls)

\* the connection loop over many attempts
Next == Step(MaxOffers, MaxAttempts, MaxPolls, PollSleeps, ConnectBrief)
Spec == Init /\ [][Next]_vars

\* one long connection
HbNext == Step(HbMaxOffers, HbMaxAttempts, HbMaxPolls, PollSleeps, ConnectBrief)
HbSpec == Init /\ [][HbNext]_vars

\* the lanes filled to capacity
LaneNext ==
    Step(LaneMaxOffers, LaneMaxAttempts, LaneMaxPolls, {POLL_SLEEP_MS}, ConnectBrief)
LaneSpec == Init /\ [][LaneNext]_vars

\* every way an attempt and a connection can end
ConnNext ==
    Step(ConnMaxOffers, ConnMaxAttempts, ConnMaxPolls,
         {POLL_SLEEP_MS, HEARTBEAT_INTERVAL_MS}, ConnectOutcomes)
ConnSpec == Init /\ [][ConnNext]_vars

\* the streaming thread next to a plugin that makes every call of the client:
\* start and send, and set_port from initialize and process when the host has
\* changed the Port parameter
ApiNext ==
    \/ Step(ApiMaxOffers, ApiMaxAttempts, ApiMaxPolls, {POLL_SLEEP_MS}, ConnectBrief)
    \/ PluginStep(ApiMaxCalls, {1}, {DEFAULT_SAMPLE_RATE}, {2})
    \/ \E p \in Ports : HostSetPort(p)
ApiSpec == Init /\ [][ApiNext]_vars

\* a packet built, encoded and decoded
CodecNext ==
    \/ \E p \in Packets : BuildPacket(p)
    \/ Encode
    \/ Decode
CodecSpec == Init /\ [][CodecNext]_vars

\* the assembled plugin as the host drives it: HardwaveBridge owns the client
\* and calls set_port and send on it, and nothing else
PluginNext ==
    \/ PluginStep(MaxCalls, BatchSizes, {DEFAULT_SAMPLE_RATE}, Layouts)
    \/ \E b \in BOOLEAN : HostSetEnabled(b)
PluginSpec == Init /\ [][PluginNext]_vars

\* the messages of one connection, with the producer's clock running
StampNext ==
    \/ Step(StampMaxOffers, StampMaxAttempts, StampMaxPolls,
            {HEARTBEAT_INTERVAL_MS}, {"handshake"})
    \/ Tick(1, StampMaxMs)
StampSpec == Init /\ [][StampNext]_vars

\* the read loop of one connect attempt, over the peer's answers and the
\* ways they arrive
HandshakeNext ==
    \/ \E answer \in Responses : SendRequest(answer)
    \/ \E n \in ReadSizes :
          ReadSome(Min(n, Min(Len(hs_stream), RESPONSE_LEN) - total_read))
    \/ \E outcome \in {"closed", "read_err"} : ReadNothing(outcome)
HandshakeSpec == Init /\ [][HandshakeNext]_vars

\* the analyser on its own: process over windows
AnalyserNext == \E input \in Windows : AnalyserProcess(input, AnMaxCalls)
AnalyserSpec == Init /\ [][AnalyserNext]_vars

\* calculate_levels over slices
LevelsNext == \E samples \in LevelInputs : Levels(samples)
LevelsSpec == Init /\ [][LevelsNext]_vars

\* the producer and the editor thread on the editor lane
EditorNext ==
    \/ SendFftData(EdMaxOffers)
    \/ DrainBegin(EdMaxPasses)
    \/ DrainPop
    \/ DrainEnd
EditorSpec == Init /\ [][EditorNext]_vars

\* the editor window opened and closed while the producer sends
ReopenNext ==
    \/ SendFftData(ReMaxOffers)
    \/ \E webview \in {"Ok", "Err"} : EditorSpawn(webview)
    \/ EditorHandleDrop
    \/ \E t \in EdThreads : ThreadCheck(t)
    \/ \E t \in EdThreads : ThreadPop(t)
    \/ \E t \in EdThreads : ThreadPassEnd(t)
ReopenSpec == Init /\ [][ReopenNext]_vars

\* the host turning Enabled off and on and moving Port between blocks
GateNext ==
    \/ \E n \in GateBlocks : Process(n, GateMaxCalls)
    \/ \E b \in BOOLEAN : HostSetEnabled(b)
    \/ \E p \in Ports : HostSetPort(p)
GateSpec == Init /\ [][GateNext]_vars

\* one stream at one sample rate, cut into blocks by the host
CadenceNext == \E n \in HostBlocks : Process(n, CadenceMaxCalls)
CadenceSpec == Init /\ [][CadenceNext]_vars

\* a stream with discontinuities
ResetNext ==
    \/ Reset
    \/ \E n \in ResetBlocks : Process(n, ResetMaxCalls)
ResetSpec == Init /\ [][ResetNext]_vars

\* a stream whose sample rate the host changes
RateNext ==
    \/ \E rate \in SampleRates, channels \in Layouts : Initialize(rate, channels)
    \/ Process(DEFAULT_SAMPLES_PER_SEND, RateMaxCalls)
RateSpec == Init /\ [][RateNext]_vars

---------------------------------------------------------------------------
(* Fairness: the operating system schedules the streaming thread, every
   blocking call of which is bounded (connect timeout 2s, read and write
   timeouts 100ms, finite sleeps), and the owner's join returns once the
   thread has exited. *)

ThreadNext ==
    \/ LoopTop(MaxAttempts)
    \/ \E outcome \in ConnectBrief : TryConnect(outcome)
    \/ HandleCheck(MaxPolls)
    \/ \E outcome \in WriteOutcomes, d \in PollSleeps : HandleBody(outcome, d)
    \/ WaitCheck
    \/ BackoffWake

FairSpec == Spec /\ WF_vars(ThreadNext) /\ WF_vars(JoinReturn)

---------------------------------------------------------------------------
(* The connection state machine and the backoff *)

AllowedTransitions ==
    { <<"Disconnected", "Connecting">>, <<"Connecting", "Connected">>,
      <<"Connecting", "Disconnected">>, <<"Connected", "Disconnected">>,
      <<"Connected", "Error">> }

\* C1: every change of the Connection State is one of Disconnected->Connecting,
\* Connecting->Connected, Connecting->Disconnected, Connected->Disconnected or
\* Connected->Error; Connected is entered only from Connecting and Connecting
\* never from Connected.
C1_StateMachine ==
    [][state' # state => <<state, state'>> \in AllowedTransitions]_vars

\* a connection was established, failed on a write, and the loop reconnects
C1_Witness ==
    /\ state = "Connecting"
    /\ connected_before
    /\ last_attempt = "connected"
    /\ attempts >= 2

\* the k-th wait of a doubling backoff: min(100ms * 2^(k-1), 5s)
BackoffOf(k) ==
    Min(INITIAL_RECONNECT_DELAY_MS * Pow2(k - 1), MAX_RECONNECT_DELAY_MS)

AfterFailedAttempt == pc = "sleeping" /\ last_attempt = "failed"

\* C2 as stated: in every run of consecutive failed attempts the wait after the
\* k-th failure is min(100ms * 2^(k-1), 5s).
C2_AsStated == AfterFailedAttempt => last_wait = BackoffOf(fails)

\* C2 amended: the k-th wait since the thread started or since the last
\* successful connect is min(100ms * 2^(k-1), 5s); a run of failures that
\* starts at the thread's start has its k-th failure followed by that wait,
\* a run that follows a successful connect by min(100ms * 2^k, 5s), the wait
\* after the connection's end being the first; every wait is in [100ms, 5s].
C2_Backoff ==
    pc = "sleeping" =>
        /\ last_wait = BackoffOf(waits)
        /\ last_wait >= INITIAL_RECONNECT_DELAY_MS
        /\ last_wait <= MAX_RECONNECT_DELAY_MS
        /\ last_attempt = "failed" =>
              waits = IF connected_before THEN fails + 1 ELSE fails

\* the eighth failure in a row: the second wait at the cap
C2_Witness == AfterFailedAttempt /\ fails = 8 /\ last_wait = MAX_RECONNECT_DELAY_MS

FirstFailureAfterSuccess ==
    AfterFailedAttempt /\ fails = 1 /\ connected_before

\* C3 as stated: the first failed attempt after a successful connect is
\* followed by a wait of exactly 100ms.
C3_AsStated ==
    FirstFailureAfterSuccess => last_wait = INITIAL_RECONNECT_DELAY_MS

\* C3 amended: a successful connect resets the backoff: whatever number of
\* failures preceded it, the wait that follows the end of that connection is
\* exactly 100ms, and the first failed attempt after it is followed by 200ms.
C3_ResetOnConnect ==
    /\ (pc = "sleeping" /\ last_attempt = "connected") =>
           last_wait = INITIAL_RECONNECT_DELAY_MS
    /\ FirstFailureAfterSuccess =>
           last_wait = 2 * INITIAL_RECONNECT_DELAY_MS

\* failures, then a success, then the first failure after it
C3_Witness == FirstFailureAfterSuccess /\ attempts >= 4

---------------------------------------------------------------------------
(* Shutdown *)

\* C10: once the shutdown flag is set with the thread running, the thread
\* eventually leaves its loop and the owner's join returns; after the thread
\* has exited it stays exited and hands no further message to the socket.
C10_ShutdownTerminates ==
    /\ (shutdown /\ thread_handle = "Some") ~> (pc = "done" /\ owner = "dropped")
    /\ [][pc = "done" => (pc' = "done" /\ wire' = wire)]_vars

\* the thread wrote on a connection, was shut down and joined
C10_Witness == pc = "done" /\ owner = "dropped" /\ wire # <<>>

---------------------------------------------------------------------------
(* The lanes *)

\* a send cycle took place in this step
Offered == offered' = offered + 1

\* C4: an offer never blocks the producer: the send cycle can always run; on a
\* lane that holds its capacity of 32 the offered packet is discarded and the
\* lane's contents and order stay as they were; no lane ever holds more than 32.
C4_OfferNeverBlocks ==
    /\ [](/\ Len(ws_lane) <= LANE_CAPACITY
          /\ Len(editor_lane) <= LANE_CAPACITY
          /\ (owner = "alive" /\ offered < LaneMaxOffers)
                => ENABLED SendFftData(LaneMaxOffers))
    /\ [][Offered =>
            /\ Len(ws_lane) = LANE_CAPACITY => ws_lane' = ws_lane
            /\ Len(editor_lane) = LANE_CAPACITY => editor_lane' = editor_lane
            /\ owner' = "alive"]_vars

\* both lanes full and a further packet offered and discarded
C4_Witness ==
    /\ Len(ws_lane) = LANE_CAPACITY
    /\ Len(editor_lane) = LANE_CAPACITY
    /\ offered > LANE_CAPACITY + Len(popped)
    /\ owner = "alive"

\* the lane holds the packets of the latest send cycles
MostRecent(lane) ==
    \A i \in 1..Len(lane) : lane[i] = new_fft(offered - Len(lane) + i)

\* the lane holds consecutive packets starting with `first`
EarliestFrom(lane, first) ==
    \A i \in 1..Len(lane) : lane[i] = new_fft(first + i - 1)

\* more packets than the capacity were offered to the lane and none was taken
EditorOverfilled == editor_open /\ offered > LANE_CAPACITY

WsOverfilled ==
    /\ ws_lane # <<>>
    /\ popped = <<>>
    /\ offered >= ws_lane[1].seq + LANE_CAPACITY

\* C5 as stated: after more offers than the capacity with no drain the lane
\* holds exactly 32 packets and they are the most recently offered ones.
C5_AsStated ==
    /\ EditorOverfilled => (Len(editor_lane) = LANE_CAPACITY /\ MostRecent(editor_lane))
    /\ WsOverfilled => (Len(ws_lane) = LANE_CAPACITY /\ MostRecent(ws_lane))

\* C5 amended: after more offers than the capacity with no drain the lane
\* holds exactly 32 packets and they are the earliest offered ones, in offer
\* order: the first 32 offered to it; every later one was discarded.
C5_KeepsEarliest ==
    /\ EditorOverfilled =>
          (Len(editor_lane) = LANE_CAPACITY /\ EarliestFrom(editor_lane, 1))
    /\ WsOverfilled =>
          (Len(ws_lane) = LANE_CAPACITY /\ EarliestFrom(ws_lane, ws_lane[1].seq))

\* both lanes overfilled with nothing drained
C5_Witness == EditorOverfilled /\ WsOverfilled /\ offered = LANE_CAPACITY + 2

\* what the lane's consumer has received followed by what it will receive
Delivery == popped \o ws_lane

\* C6: the packets the streaming thread takes from its lane, in the order it
\* takes them (those still queued included), are a subsequence of the offered
\* ones: each was offered, and they come in offer order with no repetition.
C6_ProducerOrder ==
    /\ \A i \in 1..Len(Delivery) :
          /\ Delivery[i].packet_type = PACKET_TYPE_FFT
          /\ Delivery[i].seq \in 1..offered
    /\ \A i \in 1..(Len(Delivery) - 1) : Delivery[i].seq < Delivery[i + 1].seq

\* packets were taken in order, and a packet discarded at a full lane left a
\* gap in what follows
C6_Witness ==
    /\ Len(popped) >= 2
    /\ \E i \in 1..(Len(ws_lane) - 1) : ws_lane[i + 1].seq > ws_lane[i].seq + 1

\* the lane takes the packet of this send cycle exactly when it is open and
\* below capacity
LaneTakes(lane, lane_after, open) ==
    lane_after = IF open /\ Len(lane) < LANE_CAPACITY
                 THEN Append(lane, new_fft(offered + 1))
                 ELSE lane

\* C7: in one send cycle the same packet is offered to both lanes; whether it
\* is enqueued on a lane depends on that lane alone (open and below capacity),
\* not on the other lane being full or closed, and the producer carries on.
C7_LanesIndependent ==
    [][Offered =>
         /\ LaneTakes(ws_lane, ws_lane', ws_receiver_alive)
         /\ LaneTakes(editor_lane, editor_lane', editor_open)
         /\ owner' = "alive"]_vars

\* the streaming lane, still closed, lost the first packet, which the editor
\* lane took; later the editor lane, full, refused the latest packet, which
\* the streaming lane took
C7_Witness ==
    /\ Len(editor_lane) = LANE_CAPACITY
    /\ editor_lane[1].seq = 1
    /\ editor_lane[LANE_CAPACITY].seq < offered
    /\ ws_lane # <<>>
    /\ ws_lane[Len(ws_lane)].seq = offered
    /\ Delivery[1].seq > 1

---------------------------------------------------------------------------
(* Heartbeats *)

\* this step handed a heartbeat to the socket
HeartbeatWritten ==
    /\ Len(wire') = Len(wire) + 1
    /\ wire'[Len(wire')].packet_type = PACKET_TYPE_HEARTBEAT

\* the timer is not running or shows a full heartbeat interval
IntervalPassed(t) == t = -1 \/ t >= HEARTBEAT_INTERVAL_MS

Iteration == pc = "h_body" /\ pc' # "h_body"

---------------------------------------------------------------------------
(* Failures of an attempt and of a connection *)

WriteErrors == WriteOutcomes \ {"ok"}

\* C11: every failure of a connect attempt (TCP connect refused or timed out,
\* clone or request write failing, read error or timeout, peer closing before
\* the headers end, headers overflowing the buffer, non-UTF-8 or non-101
\* response) leaves the Connection State at Disconnected and the thread at the
\* backoff wait, which it takes unless shutdown was requested; the thread ends
\* only at the top of the loop, on the shutdown flag.
C11_ConnectFailure ==
    [][ /\ (pc = "connect" /\ pc' # pc /\ state' # "Connected") =>
              /\ state' = "Disconnected"
              /\ pc' = "wait_check"
              /\ last_error' \in ConnectFailures
        /\ (pc = "wait_check" /\ pc' # pc /\ ~shutdown) => pc' = "sleeping"
        /\ (pc' = "done" /\ pc # "done") => (pc = "top" /\ shutdown)
      ]_vars

\* an attempt found the headers overflowing the buffer and the thread is in
\* the backoff wait that follows
C11_Witness ==
    /\ pc = "sleeping"
    /\ last_error = "overflow"
    /\ state = "Disconnected"
    /\ ~shutdown

\* C12: while Connected, a failed write or flush of a message, payload or
\* heartbeat, sets the state to Disconnected and ends the handler; the loop
\* then takes the backoff wait and, after it, the next connect attempt, unless
\* shutdown was requested.
C12_WriteFailure ==
    [][ /\ (pc = "h_body" /\ last_error' # last_error) =>
              /\ last_error' \in WriteErrors
              /\ state = "Connected"
              /\ state' = "Disconnected"
              /\ pc' = "wait_check"
        /\ (pc = "h_body" /\ Len(wire') = Len(wire) /\ Len(popped') > Len(popped))
              => last_error' = "send_err" /\ pc' = "wait_check"
        /\ (pc = "wait_check" /\ last_error \in WriteErrors /\ pc' # pc /\ ~shutdown)
              => pc' = "sleeping"
        /\ (pc = "sleeping" /\ pc' # pc) => pc' = "top"
        /\ (pc = "top" /\ last_error \in WriteErrors /\ pc' # pc /\ ~shutdown)
              => pc' = "connect" /\ state' = "Connecting"
      ]_vars

\* the flush of a heartbeat failed and the loop is at its next attempt
C12_Witness ==
    /\ pc = "connect"
    /\ last_error = "flush_err"
    /\ wire # <<>>
    /\ wire[Len(wire)] = new_heartbeat
    /\ attempts >= 2

---------------------------------------------------------------------------
(* The port *)

\* C13: a port change never affects the connection in progress.  Each attempt
\* uses the port read at its start, which is the argument of the most recent
\* set_port (any value in 1024..65535 is stored unchanged); the port of an
\* attempt does not change until the next attempt starts; and a set_port moves
\* neither the thread nor the Connection State nor the attempt count, whatever
\* the thread is doing.
C13_PortPerAttempt ==
    [][ /\ (pc = "top" /\ pc' = "connect") =>
              /\ port' = last_set
              /\ port' \in PORT_MIN..PORT_MAX
        /\ ~(pc = "top" /\ pc' = "connect") => port' = port
        /\ (server_port' # server_port \/ last_set' # last_set) =>
              /\ server_port' = last_set'
              /\ UNCHANGED <<pc, state, attempts, port, reconnect_delay, wire,
                             ws_lane, hb_elapsed>>
      ]_vars

\* the port was changed while Connected: the handler goes on with the
\* connection made on the earlier port
C13_Witness ==
    /\ state = "Connected"
    /\ pc = "h_body"
    /\ port = DEFAULT_PORT
    /\ server_port = PORT_MAX
    /\ polls >= 1

---------------------------------------------------------------------------
(* The sample windows and the send condition *)

\* samples appended since the windows were last cleared
SinceClear == samples_in - cleared_at

ProcessRan == calls' = calls + 1 /\ enabled

\* C17: a process call (Enabled on) offers a packet exactly when, after its
\* block was appended, samples_since_send >= samples_per_send and the window
\* holds FFT_SIZE samples; it then offers one packet, the same one, to both
\* lanes and sets the counter to 0; otherwise it offers nothing and the counter
\* keeps its accumulated value.
C17_SendCondition ==
    [][ ProcessRan =>
          LET counter == samples_since_send + (samples_in' - samples_in)
              packet == new_fft(offered + 1)
          IN IF counter >= samples_per_send /\ Len(buffer_left') = FFT_SIZE
             THEN /\ offered' = offered + 1
                  /\ samples_since_send' = 0
                  /\ ws_lane' = try_send(ws_lane, ws_receiver_alive, packet)
                  /\ editor_lane' = try_send(editor_lane, editor_open, packet)
             ELSE /\ offered' = offered
                  /\ samples_since_send' = counter
                  /\ ws_lane' = ws_lane
                  /\ editor_lane' = editor_lane
      ]_vars

\* the second block filled the window and a packet went out; the first one
\* had reached the threshold with the window short and sent nothing
C17_Witness ==
    /\ calls = 2
    /\ offered = 1
    /\ samples_since_send = 0
    /\ SinceClear = 2 * DEFAULT_SAMPLES_PER_SEND
    /\ editor_lane = <<new_fft(1)>>

---------------------------------------------------------------------------
(* The client inside the plugin, and the calls of its owner *)

\* C18: start() is idempotent.  The thread handle, the number of threads
\* spawned and the channel behind packet_sender change only in the first
\* start(), which spawns the one thread and installs the one lane; no later
\* call changes any of them.
C18_StartOnce ==
    [][ (spawned' # spawned \/ lane_id' # lane_id \/ thread_handle' # thread_handle)
          => /\ thread_handle = "None"
             /\ spawned = 0
             /\ lane_id = 0
             /\ thread_handle' = "Some"
             /\ spawned' = 1
             /\ lane_id' = 1
      ]_vars

\* the one thread is in its connected loop and the owner can call start() again
C18_Witness ==
    /\ owner = "alive"
    /\ thread_handle = "Some"
    /\ spawned = 1
    /\ lane_id = 1
    /\ pc = "h_body"

\* C19 as stated: in the assembled plugin a packet offered to the streaming
\* lane while the lane has free space is enqueued for the streaming thread,
\* which exists.
C19_AsStated ==
    [][ (offered' = offered + 1 /\ Len(ws_lane) < LANE_CAPACITY)
          => /\ thread_handle = "Some"
             /\ ws_lane' = Append(ws_lane, new_fft(offered + 1))
      ]_vars

\* C20: the Connection State is written only by the streaming thread.  A step
\* that changes it is a step of the thread, at the top of its loop, at the
\* connect or in the connected loop, and is none of send, set_port, start,
\* initialize, reset and process (connection_state and is_connected only read).
C20_StateWriters ==
    [][ state' # state =>
          /\ pc \in {"top", "connect", "h_body"}
          /\ pc' # pc
          /\ UNCHANGED <<offered, server_port, last_set, thread_handle, spawned,
                         lane_id, pluginVars, owner, shutdown>>
      ]_vars

\* the thread has connected while the owner sent a packet, changed the port
\* and ran initialize and process
C20_Witness ==
    /\ is_connected
    /\ offered = 1
    /\ last_set = PORT_MAX
    /\ calls = 1
    /\ cleared_at = 1

---------------------------------------------------------------------------
(* The packet codec *)

\* C14: for every packet of either kind, from_bytes(to_bytes(p)) succeeds and
\* returns a packet equal to p in every field.
C14_RoundTrip ==
    codec_back # <<>> =>
        /\ codec_back[1] = "Ok"
        /\ codec_back[2].packet_type = codec_pkt[1].packet_type
        /\ codec_back[2].sample_rate = codec_pkt[1].sample_rate
        /\ codec_back[2].timestamp_ms = codec_pkt[1].timestamp_ms
        /\ codec_back[2].left_bands = codec_pkt[1].left_bands
        /\ codec_back[2].right_bands = codec_pkt[1].right_bands
        /\ codec_back[2].left_peak = codec_pkt[1].left_peak
        /\ codec_back[2].right_peak = codec_pkt[1].right_peak
        /\ codec_back[2].left_rms = codec_pkt[1].left_rms
        /\ codec_back[2].right_rms = codec_pkt[1].right_rms

\* an FFT packet whose bands all differ has made the round trip
C14_Witness ==
    /\ codec_back # <<>>
    /\ codec_back[1] = "Ok"
    /\ codec_back[2].packet_type = PACKET_TYPE_FFT
    /\ codec_back[2].left_bands = sloped
    /\ codec_back[2].timestamp_ms = 16777216 + 258

\* C15: every packet, of either kind, encodes to the same number of bytes, the
\* sum of the fixed field widths 1 + 4 + 8 + 64*4 + 64*4 + 4*4, which is below
\* 600.
C15_EncodedLength ==
    codec_bytes # <<>> =>
        /\ Len(codec_bytes) = 1 + 4 + 8 + NUM_BANDS * 4 + NUM_BANDS * 4 + 4 * 4
        /\ Len(codec_bytes) = PACKET_LEN
        /\ Len(codec_bytes) < PACKET_SIZE_BUDGET

\* a heartbeat has been encoded
C15_Witness ==
    /\ codec_bytes # <<>>
    /\ codec_pkt[1].packet_type = PACKET_TYPE_HEARTBEAT
    /\ codec_bytes[1] = PACKET_TYPE_HEARTBEAT

---------------------------------------------------------------------------
(* The backoff around a connection *)

\* the thread starts the sleep that follows an established connection
WaitAfterConnection ==
    pc = "wait_check" /\ pc' = "sleeping" /\ last_attempt = "connected"

\* C23: a successful connect resets the backoff: when an established
\* connection ends for a reason other than shutdown, the wait before the next
\* connect attempt is 100ms, whatever number of failed attempts preceded the
\* successful one.
C23_WaitAfterConnection ==
    [][WaitAfterConnection =>
          /\ last_wait' = INITIAL_RECONNECT_DELAY_MS
          /\ fails_before \in 0..attempts]_vars

\* the wait after a connection that three failed attempts preceded (the
\* backoff had grown to 800ms when the connect succeeded)
C23_Witness ==
    /\ pc = "sleeping"
    /\ last_attempt = "connected"
    /\ fails_before >= 3
    /\ last_wait = INITIAL_RECONNECT_DELAY_MS

\* the thread goes from the top of the loop into a connect attempt that is
\* not its first
NextAttempt == pc = "top" /\ pc' = "connect" /\ attempts >= 1

\* C24: connect attempts are never made back to back: between two consecutive
\* attempts there is exactly one backoff wait, after a failed attempt and
\* after an established connection that has ended alike.
C24_OneWaitBetweenAttempts ==
    [][NextAttempt => slept = 1]_vars

\* a third attempt is under way, after a connection that ended and after a
\* failed attempt
C24_Witness ==
    /\ pc = "connect"
    /\ attempts >= 3
    /\ connected_before
    /\ fails >= 1
    /\ slept = 0

---------------------------------------------------------------------------
(* The send cadence, resets and sample-rate changes *)

\* samples appended between the previous send cycle (or the start of the
\* stream) and the one of this step
SendInterval == samples_in' - last_send_at

\* C25 as stated: the number of samples between two consecutive offered
\* packets is samples_per_send, for every way the host splits the stream into
\* process blocks.
C25_AsStated ==
    [][Offered /\ offered >= 1 => SendInterval = samples_per_send]_vars

\* the windows are empty and nothing is counted
Cleared ==
    buffer_left = <<>> /\ buffer_right = <<>> /\ samples_since_send = 0

\* C26: after reset() both windows are empty and samples_since_send is 0; no
\* packet is offered until at least FFT_SIZE further samples have been
\* received, and the window a packet analyses holds no sample received before
\* the reset.
C26_ResetClears ==
    /\ [](reset_at = samples_in => Cleared)
    /\ [][Offered /\ reset_at >= 0 =>
            /\ samples_in' - reset_at >= FFT_SIZE
            /\ Len(buffer_left') = FFT_SIZE
            /\ Len(buffer_right') = FFT_SIZE
            /\ \A i \in 1..FFT_SIZE : buffer_left'[i] > reset_at]_vars

\* a packet was offered after a reset in mid-stream
C26_Witness ==
    /\ reset_at >= 1
    /\ offered >= 1
    /\ last_send_at >= reset_at + FFT_SIZE

\* C27: after initialize with sample rate r, samples_per_send is floor(r / 20)
\* and both windows are empty until samples arrive; every packet is offered
\* only after at least floor(r / 20) samples counted since the previous send.
C27_RateChange ==
    /\ [](/\ samples_per_send * SEND_RATE_HZ <= sample_rate
          /\ sample_rate < (samples_per_send + 1) * SEND_RATE_HZ
          /\ (cleared_at = samples_in =>
                 buffer_left = <<>> /\ buffer_right = <<>>))
    /\ [][Offered => SendInterval >= samples_per_send]_vars

\* packets offered at a rate that 20 does not divide, after a rate change in
\* mid-stream
C27_Witness ==
    /\ sample_rate = 22050
    /\ samples_per_send = 1102
    /\ cleared_at >= 1
    /\ offered >= 1
    /\ last_send_at > cleared_at

---------------------------------------------------------------------------
(* Timestamps on the wire *)

\* a message is written on a connection that has carried one before
WrittenAfterAnother == Len(wire') = Len(wire) + 1 /\ since_msg >= 0

\* C29 as stated: over the messages written on one connection, payload
\* packets and heartbeats together, timestamp_ms never decreases.
C29_AsStated ==
    [][WrittenAfterAnother =>
          wire'[Len(wire')].timestamp_ms >= wire[Len(wire)].timestamp_ms]_vars

---------------------------------------------------------------------------
(* The editor thread's drain *)

\* a drain pass ends in this step
PassEnds == ed_pc = "drain" /\ ed_pc' = "sleep"

\* C30: one drain pass pops until the lane is empty and keeps only the latest
\* packet: the one it keeps, and forwards to the display, is the last packet
\* that was enqueued before the pass ended; a pass that found the lane empty
\* keeps nothing and forwards nothing.
C30_DrainKeepsLatest ==
    /\ [](ed_pc = "drain" /\ ed_latest # <<>> =>
            /\ ed_latest[1].seq <= ed_enqueued
            /\ \A i \in 1..Len(editor_lane) :
                   editor_lane[i].seq > ed_latest[1].seq)
    /\ [][PassEnds =>
            /\ editor_lane = <<>>
            /\ IF ed_latest = <<>>
               THEN ed_shown' = ed_shown
               ELSE /\ ed_latest[1].seq = ed_enqueued
                    /\ ed_shown' = Append(ed_shown, ed_latest[1])]_vars

\* a pass that popped a full lane has forwarded the last packet the lane had
\* accepted (a later one was discarded), and the pass after it found the lane
\* empty
C30_Witness ==
    /\ ed_passes = 2
    /\ ed_pc = "sleep"
    /\ ed_latest = <<>>
    /\ offered > LANE_CAPACITY
    /\ Len(ed_shown) = 1
    /\ ed_shown[1].seq = LANE_CAPACITY

---------------------------------------------------------------------------
(* The handshake *)

\* the first 1024 bytes received
FirstBytes(stream) == SubSeq(stream, 1, Min(Len(stream), RESPONSE_LEN))

\* the terminator occurs within them and they signal a protocol switch
SwitchWithinLimit(stream) ==
    /\ contains(FirstBytes(stream), TERMINATOR)
    /\ contains(FirstBytes(stream), STATUS_101)
    /\ contains(to_lowercase(FirstBytes(stream)), UPGRADE_LOWER)

\* the attempt is over
AttemptOver == hs_result \notin {"idle", "reading"}

\* C28 as stated: for every way the peer's response is split into reads, the
\* attempt succeeds if and only if the terminator occurs within the first
\* 1024 bytes received and the response contains "101" and, in any case,
\* "upgrade"; the count of bytes read never exceeds the buffer size.
C28_AsStated ==
    /\ total_read <= RESPONSE_LEN
    /\ AttemptOver =>
          (hs_result = "handshake" <=> SwitchWithinLimit(hs_stream))

---------------------------------------------------------------------------
(* The analyser *)

\* a level that lies in [-100, 0] dB
InRange(x) == x # NAN /\ DB_FLOOR <= x /\ x <= DB_CEIL

\* C21 as stated: process on fewer than FFT_SIZE samples returns 64 entries
\* all equal to -100 dB and leaves the working buffers as they were; for any
\* input, every entry of the returned frame lies in [-100, 0].
C21_AsStated ==
    /\ [](an_input # <<>> =>
            /\ Len(an_bands) = NUM_BANDS
            /\ (an_input[1].len < FFT_SIZE =>
                   \A band \in 1..NUM_BANDS : an_bands[band] = DB_FLOOR)
            /\ \A band \in 1..NUM_BANDS : InRange(an_bands[band]))
    /\ [][(an_calls' = an_calls + 1 /\ an_input'[1].len < FFT_SIZE) =>
            fft_loaded' = fft_loaded]_vars

\* the largest absolute value among the samples
MaxAbs(samples) ==
    CHOOSE m \in {abs(samples[i]) : i \in 1..Len(samples)} :
        \A i \in 1..Len(samples) : abs(samples[i]) <= m

\* the sum of the squares of the samples
RECURSIVE SumSq(_, _)
SumSq(samples, n) ==
    IF n = 0 THEN 0 ELSE samples[n] * samples[n] + SumSq(samples, n - 1)

\* C22: calculate_levels returns the peak 20*log10(max |sample|) clamped to
\* [-100, 0] dB and the RMS sqrt(mean of squares) as a linear value (here to
\* the thousandth below): [0.5, -0.5, 0.5, -0.5] gives a peak within 0.1 dB of
\* -6.02 and an RMS within 0.01 of 0.5, and an empty input gives (-100, 0).
C22_Levels ==
    an_samples # <<>> =>
        LET samples == an_samples[1]
            peak == an_levels[1]
            rms == an_levels[2]
        IN /\ samples = <<>> => an_levels = <<DB_FLOOR, 0>>
           /\ samples # <<>> =>
                /\ peak = clamp(db_of(MaxAbs(samples)), DB_FLOOR, DB_CEIL)
                /\ InRange(peak)
                /\ rms * rms * Len(samples) <= SumSq(samples, Len(samples))
                /\ (rms + 2) * (rms + 2) * Len(samples)
                       > SumSq(samples, Len(samples))
           /\ samples = <<500, -500, 500, -500>> =>
                /\ abs(peak - (-602)) <= 10
                /\ abs(rms - 500) <= 10

\* the levels of [0.5, -0.5, 0.5, -0.5] have been taken
C22_Witness ==
    /\ an_samples = << <<500, -500, 500, -500>> >>
    /\ an_levels = <<-602, 500>>

---------------------------------------------------------------------------
(* What the Connection State cell holds *)

\* C33: the Error state is never entered: the Connection State is always one
\* of Disconnected, Connecting and Connected, and it is Disconnected from
\* construction until the background thread makes its first connect attempt.
C33_NoErrorState ==
    /\ state \in ConnectionState \ {"Error"}
    /\ attempts = 0 => state = "Disconnected"

\* a connection has been lost to a failed write, the one place where an
\* error is met while connected
C33_Witness ==
    /\ last_error \in WriteErrors
    /\ connected_before
    /\ state = "Disconnected"

\* the streaming thread is inside handle_connection
InHandler == pc \in {"h_check", "h_body"}

\* C34 as stated: whenever the handler has returned (write failure, shutdown
\* or lane closed) or the thread has exited, the state is not Connected.
C34_AsStated == state = "Connected" => InHandler

\* C34 amended: what connection_state and is_connected can read (they need
\* the client, so they run before its drop) is Connected only while the
\* thread is inside the handler, and a handler that returns on a failed write
\* has stored Disconnected; a handler that returns because shutdown was
\* requested leaves the cell at Connected, also after the thread has exited.
C34_ConnectedWhileHandling ==
    /\ [](owner = "alive" /\ is_connected => InHandler)
    /\ [](state = "Connected" /\ ~InHandler => shutdown /\ owner # "alive")
    /\ [][pc = "h_body" /\ pc' = "wait_check" /\ last_error' \in WriteErrors
            /\ last_error' # last_error => state' = "Disconnected"]_vars

\* the thread has exited after a shutdown that found it connected, and the
\* cell still holds Connected
C34_Witness ==
    /\ pc = "done"
    /\ owner = "dropped"
    /\ state = "Connected"

---------------------------------------------------------------------------
(* Packets between the lane and the socket *)

\* the payload packets among the messages, in order
RECURSIVE Payloads(_)
Payloads(messages) ==
    IF messages = <<>> THEN <<>>
    ELSE IF Head(messages).packet_type = PACKET_TYPE_FFT
         THEN <<Head(messages)>> \o Payloads(Tail(messages))
         ELSE Payloads(Tail(messages))

\* strictly increasing packet numbers
Ascending(packets) ==
    \A i, j \in 1..Len(packets) : i < j => packets[i].seq < packets[j].seq

\* C35: no packet is written more than once: a popped packet goes into at
\* most one message; one popped when the write or the flush fails is not put
\* back or written again; the packets in the lane when a connection ends stay
\* there, and the next message written, on whichever connection, carries
\* the head of the lane.
C35_WrittenOnce ==
    /\ [](/\ Ascending(Payloads(wire))
          /\ Ascending(popped \o ws_lane)
          /\ \A i \in 1..Len(wire) :
                 wire[i].packet_type = PACKET_TYPE_FFT =>
                     \E j \in 1..Len(popped) : popped[j] = wire[i])
    /\ [][popped' # popped =>
            /\ ws_lane # <<>>
            /\ popped' = Append(popped, Head(ws_lane))
            /\ ws_lane' = Tail(ws_lane)
            /\ wire' \in {wire, Append(wire, Head(ws_lane))}]_vars
    /\ [][popped' = popped =>
            /\ Len(ws_lane') >= Len(ws_lane)
            /\ SubSeq(ws_lane', 1, Len(ws_lane)) = ws_lane
            /\ Payloads(wire') = Payloads(wire)]_vars
    /\ [][wire' # wire /\ ws_lane # <<>> => popped' # popped]_vars

\* the first packet was popped and lost to a failed send, the connection
\* ended with the second one in the lane, and a second connection wrote it
C35_Witness ==
    /\ Len(popped) = 2
    /\ attempts = 2
    /\ Payloads(wire) = <<popped[2]>>
    /\ popped[1].seq = 1

---------------------------------------------------------------------------
(* What the streaming thread still does once shutdown is stored *)

\* the thread enters thread::sleep(reconnect_delay)
BeginsWait == pc # "sleeping" /\ pc' = "sleeping"

\* C37: once the shutdown flag is stored the streaming thread calls
\* try_connect at most once more and socket.send at most once more, and after
\* one of its loads of the flag has returned true it begins no backoff wait,
\* no connect attempt and no write.
C37_BoundedAfterShutdown ==
    /\ [](after_connects <= 1 /\ after_writes <= 1)
    /\ [][read_set => /\ ~BeginsWait
                      /\ after_connects' = after_connects
                      /\ after_writes' = after_writes]_vars

\* the flag was stored between the loop condition of the handler and its
\* try_recv: one more message was written, and the thread has ended
C37_Witness ==
    /\ after_writes = 1
    /\ read_set
    /\ pc = "done"

---------------------------------------------------------------------------
(* process with the Enabled parameter off *)

\* a process call made while Enabled is off
IdleProcess == calls' = calls + 1 /\ ~enabled

\* C36: while Enabled is off a process call leaves both windows and
\* samples_since_send as they are and offers no packet to either lane, and it
\* still passes a changed Port on to the client with set_port.
C36_DisabledProcess ==
    [][IdleProcess =>
          /\ buffer_left' = buffer_left
          /\ buffer_right' = buffer_right
          /\ samples_since_send' = samples_since_send
          /\ offered' = offered
          /\ ws_lane' = ws_lane
          /\ editor_lane' = editor_lane
          /\ params_port # last_port =>
                 /\ server_port' = as_u16(params_port)
                 /\ last_set' = params_port
                 /\ last_port' = params_port
          /\ params_port = last_port =>
                 UNCHANGED <<server_port, last_set, last_port>>]_vars

\* one send period is in the windows, which a whole block would fill, and
\* the call made with Enabled off has passed on a new port and nothing else
C36_Witness ==
    /\ last_call = "idle_forwarded"
    /\ Len(buffer_left) = DEFAULT_SAMPLES_PER_SEND
    /\ samples_since_send = samples_per_send
    /\ server_port = PORT_MAX
    /\ offered = 0

---------------------------------------------------------------------------
(* The two mutexes of the client *)

\* positions of the streaming thread in or before a blocking call:
\* try_connect, the socket write and flush, thread::sleep
Blocking == pc \in {"connect", "h_body", "sleeping"}

\* C32: the streaming thread holds the server_port mutex and the state mutex
\* for one read or write of the cell only: between its statements, and so
\* while it connects, handshakes, writes to the socket or sleeps, both are
\* free, and a set_port made then stores its port at once.
C32_LocksNotHeld ==
    /\ [](port_lock = "free" /\ state_lock = "free")
    /\ [][Blocking /\ last_port' # last_port =>
              /\ server_port' = as_u16(params_port)
              /\ pc' = pc]_vars

\* the thread is inside a connect attempt to the port it read, and a set_port
\* made meanwhile has stored another one
C32_Witness ==
    /\ pc = "connect"
    /\ server_port # port
    /\ last_set # 0
    /\ port_lock = "free"
    /\ state_lock = "free"

---------------------------------------------------------------------------
(* The consumers of the editor lane *)

\* the editor threads inside their try_recv loop
Draining == {t \in EdThreads : th_pc[t] = "drain"}

\* thread t takes a packet from the editor lane
Takes(t) == th_latest'[t] # th_latest[t] /\ th_latest'[t] # <<>>

\* C31: the editor lane has one consumer: over every sequence of editor spawn
\* and editor-handle drop at most one thread is in the try_recv loop of the
\* lane, and a packet is taken only by the thread of the living handle.
C31_AsStated ==
    /\ [](Cardinality(Draining) <= 1)
    /\ [][\A t \in EdThreads : Takes(t) => ed_handle = t]_vars

====
